---- MODULE Spec2Model ----
(***************************************************************************)
(* A model of the ingestion-and-aggregation core of the benchmark plotting *)
(* scripts: the histogram mini-format parser and bucketizer                *)
(* (scripts/plot_phase1.py), the normalisation of a row's buckets and the  *)
(* stacked stage bar (scripts/plot_phase1.py), the per-core cell decoder   *)
(* and the tolerant row reconstructor (scripts/plot_multicore.py), the     *)
(* results loader, the grouped mean, the line plots and the time-window    *)
(* histogram merger (scripts/plot_bdev.py), and the config patcher         *)
(* (scripts/apply_ssd_profile.py).                                         *)
(*                                                                         *)
(* Text is a sequence of one-character strings.  Numbers are exact         *)
(* rationals [k |-> "fin", n, d] in lowest terms, plus the IEEE specials   *)
(* nan, +inf and -inf that Python's float() can produce; binary rounding   *)
(* of floating point arithmetic is not modelled.                           *)
(***************************************************************************)
EXTENDS Integers, Sequences, FiniteSets, TLC

VARIABLES
    call,       \* the function that is called
    pc,         \* "call" before it runs, "return" after
    hist_str,   \* argument of parse_hist
    raw_hist,   \* what parse_hist returned (or raised)
    b_hist,     \* bucket_hist_simplified(raw_hist)
    file,       \* the file read_multicore_csv is given: its physical lines
    exc,        \* the exception the call raised, or "none"
    header,     \* tokenized header line
    row_lines,  \* logical row buffers after the scan
    data_rows,  \* tokenized (and padded) logical rows
    df,         \* outcome of building the DataFrame
    cell,       \* argument of per_core_mean
    values,     \* parse_per_core_values(cell)
    mean,       \* per_core_mean(cell)
    csv_path,   \* the results file plot_one is given: its physical lines
    records,    \* rows, agg of plot_one: the records load_results returned
    plot,       \* what lineplot returned, and the lines it drew
    hist_rows,  \* the samples plot_histograms is given
    row_i,      \* the place in hist_rows of the row the merging loop is at
    overall_counts, \* plot_histograms: summed counts per midpoint
    agg_counts, \* plot_histograms: summed counts per (IO size, QD, midpoint)
    overall_dist,   \* the overall distribution that is drawn
    size_dists, \* the distributions drawn per IO size and queue depth
    plots,      \* the figures plot_histograms saved and returns
    melt,       \* what lineplot_melt returned, and the lines it drew
    norm_hist,  \* plot_completions_stacked_by_qd: the percentages of a row
    frame,      \* the DataFrame _stacked_stage_bar is given
    stage_size, \* the IO size _stacked_stage_bar is given
    stage,      \* what _stacked_stage_bar returned (or raised)
    config,     \* the file at config_path: whether it exists, and its text
    backup,     \* the file at config_path + ".bak"
    original,   \* the file at config_path as it was before the first call
    updates,    \* the updates of the latest call of apply_config
    before,     \* the text at config_path before the latest call
    calls       \* how many calls of apply_config there were

vars == <<call, pc, hist_str, raw_hist, b_hist, file, exc, header, row_lines,
          data_rows, df, cell, values, mean, csv_path, records, plot, hist_rows,
          row_i, overall_counts, agg_counts, overall_dist, size_dists, plots,
          melt, norm_hist, frame, stage_size, stage, config, backup, original,
          updates, before, calls>>

\* The variables of the calls into scripts/plot_phase1.py and
\* scripts/plot_multicore.py, and those of the calls into scripts/plot_bdev.py.
coreVars == <<hist_str, raw_hist, b_hist, file, header, row_lines, data_rows,
              df, cell, values, mean>>

bdevVars == <<csv_path, records, plot, melt>>

histVars == <<hist_rows, row_i, overall_counts, agg_counts, overall_dist,
              size_dists, plots>>

stageVars == <<frame, stage_size, stage>>

configVars == <<config, backup, original, updates, before, calls>>

(***************************************************************************)
(* Bounds of the model.                                                    *)
(***************************************************************************)
MaxTokens == 3
MaxLines == 3
MaxParts == 2
MaxSamples == 3
MaxRows == 2
MaxConfigLines == 2
MaxCalls == 2

(***************************************************************************)
(* Characters and text.                                                    *)
(***************************************************************************)
Digits == {"0", "1", "2", "3", "4", "5", "6", "7", "8", "9"}

Whitespace == {" ", "\t", "\n", "\r", "\f"}

LineBreaks == {"\n", "\r", "\f"}

DigitVal(c) ==
    CASE c = "0" -> 0 [] c = "1" -> 1 [] c = "2" -> 2 [] c = "3" -> 3
      [] c = "4" -> 4 [] c = "5" -> 5 [] c = "6" -> 6 [] c = "7" -> 7
      [] c = "8" -> 8 [] c = "9" -> 9

RECURSIVE DigitsVal(_)
DigitsVal(s) ==
    IF s = <<>> THEN 0
    ELSE DigitsVal(SubSeq(s, 1, Len(s) - 1)) * 10 + DigitVal(s[Len(s)])

AllIn(s, S) == \A i \in 1..Len(s) : s[i] \in S

Drop(s, n) == SubSeq(s, n + 1, Len(s))

Take(s, n) == SubSeq(s, 1, n)

RECURSIVE LStrip(_)
LStrip(s) ==
    IF s /= <<>> /\ s[1] \in Whitespace THEN LStrip(Tail(s)) ELSE s

RECURSIVE RStrip(_)
RStrip(s) ==
    IF s /= <<>> /\ s[Len(s)] \in Whitespace
    THEN RStrip(Take(s, Len(s) - 1)) ELSE s

Strip(s) == LStrip(RStrip(s))

\* Index of the first element of s that lies in S, or 0.
FirstIn(s, S) ==
    IF \E i \in 1..Len(s) : s[i] \in S
    THEN CHOOSE i \in 1..Len(s) :
             s[i] \in S /\ \A j \in 1..(i - 1) : s[j] \notin S
    ELSE 0

\* Number of leading elements of s that lie in S.
RECURSIVE SpanIn(_, _)
SpanIn(s, S) ==
    IF s /= <<>> /\ s[1] \in S THEN 1 + SpanIn(Tail(s), S) ELSE 0

\* str.split(sep) for a one-character separator: never an empty list.
RECURSIVE Split(_, _)
Split(s, sep) ==
    LET i == FirstIn(s, {sep})
    IN  IF i = 0 THEN <<s>>
        ELSE <<Take(s, i - 1)>> \o Split(Drop(s, i), sep)

\* sep.join(parts)
RECURSIVE Join(_, _)
Join(parts, sep) ==
    IF parts = <<>> THEN <<>>
    ELSE IF Len(parts) = 1 THEN parts[1]
    ELSE parts[1] \o sep \o Join(Tail(parts), sep)

\* [p.strip() for p in parts if p.strip()]
RECURSIVE StripNonEmpty(_)
StripNonEmpty(parts) ==
    IF parts = <<>> THEN <<>>
    ELSE LET p == Strip(parts[1])
         IN  (IF p = <<>> THEN <<>> ELSE <<p>>) \o StripNonEmpty(Tail(parts))

(***************************************************************************)
(* Numbers.                                                                *)
(***************************************************************************)
Abs(x) == IF x < 0 THEN -x ELSE x

RECURSIVE GCD(_, _)
GCD(a, b) == IF b = 0 THEN a ELSE GCD(b, a % b)

RECURSIVE Pow10(_)
Pow10(e) == IF e = 0 THEN 1 ELSE 10 * Pow10(e - 1)

\* The rational n/d (d > 0) in lowest terms.
Rat(n, d) ==
    LET g == GCD(Abs(n), d)
    IN  [k |-> "fin", n |-> n \div g, d |-> d \div g]

NaN == [k |-> "nan", n |-> 0, d |-> 1]

Inf(sign) == [k |-> "inf", n |-> sign, d |-> 1]

ValueError == [k |-> "ValueError", n |-> 0, d |-> 1]

Zero == Rat(0, 1)

\* IEEE addition on the modelled numbers.
Add(a, b) ==
    IF a.k = "nan" \/ b.k = "nan" THEN NaN
    ELSE IF a.k = "inf" /\ b.k = "inf" THEN (IF a.n = b.n THEN a ELSE NaN)
    ELSE IF a.k = "inf" THEN a
    ELSE IF b.k = "inf" THEN b
    ELSE Rat(a.n * b.d + b.n * a.d, a.d * b.d)

\* IEEE division of a number by a positive integer.
DivInt(a, m) == IF a.k = "fin" THEN Rat(a.n, a.d * m) ELSE a

\* IEEE comparison a >= 0: false for nan.
NonNegative(a) == a.k /= "nan" /\ a.n >= 0

\* IEEE equality: nan equals nothing.
NumEq(a, b) == a.k /= "nan" /\ b.k /= "nan" /\ a = b

\* IEEE comparison a < b: false when either is nan.
Less(a, b) ==
    /\ a.k /= "nan" /\ b.k /= "nan"
    /\ IF a.k = "inf" THEN a.n = -1 /\ b /= a
       ELSE IF b.k = "inf" THEN b.n = 1
       ELSE a.n * b.d < b.n * a.d

\* IEEE multiplication of a number by a non-zero integer.
MulInt(a, m) ==
    IF a.k = "fin" THEN Rat(a.n * m, a.d)
    ELSE IF a.k = "inf" THEN Inf(IF m < 0 THEN -a.n ELSE a.n)
    ELSE a

ZeroDivisionError == [k |-> "ZeroDivisionError", n |-> 0, d |-> 1]

\* Python's a / b on floats: division by zero raises, the rest is IEEE.
Div(a, b) ==
    IF b.k = "fin" /\ b.n = 0 THEN ZeroDivisionError
    ELSE IF a.k = "nan" \/ b.k = "nan" THEN NaN
    ELSE IF a.k = "inf" /\ b.k = "inf" THEN NaN
    ELSE IF b.k = "inf" THEN Zero
    ELSE IF b.n = 0 THEN ZeroDivisionError
    ELSE IF a.k = "inf" THEN Inf(IF b.n < 0 THEN -a.n ELSE a.n)
    ELSE IF b.n < 0 THEN Rat(-(a.n * b.d), a.d * (-b.n))
    ELSE Rat(a.n * b.d, a.d * b.n)

RECURSIVE SumSeq(_)
SumSeq(s) == IF s = <<>> THEN Zero ELSE Add(SumSeq(Take(s, Len(s) - 1)), s[Len(s)])

Lower(c) ==
    CASE c = "N" -> "n" [] c = "A" -> "a" [] c = "I" -> "i" [] c = "F" -> "f"
      [] c = "T" -> "t" [] c = "Y" -> "y" [] c = "E" -> "e" [] OTHER -> c

LowerSeq(s) == [i \in 1..Len(s) |-> Lower(s[i])]

\* Number of digits of s after its leading zeros.
RECURSIVE SigDigits(_)
SigDigits(s) ==
    IF s = <<>> THEN 0
    ELSE IF s[1] = "0" THEN SigDigits(Tail(s)) ELSE Len(s)

\* The unsigned decimal literal intpart[.fracpart][(e|E)[sign]digits] of
\* float(): ValueError when the text is not one.  A magnitude beyond the
\* range of a double becomes inf, one below it becomes 0.
PyDecimal(body, sign) ==
    LET ei   == FirstIn(body, {"e", "E"})
        mant == IF ei = 0 THEN body ELSE Take(body, ei - 1)
        ex   == IF ei = 0 THEN <<>> ELSE Drop(body, ei)
        exs  == IF ex /= <<>> /\ ex[1] \in {"+", "-"} THEN Tail(ex) ELSE ex
        eneg == ex /= <<>> /\ ex[1] = "-"
        di   == FirstIn(mant, {"."})
        ip   == IF di = 0 THEN mant ELSE Take(mant, di - 1)
        fp   == IF di = 0 THEN <<>> ELSE Drop(mant, di)
        ok   == /\ AllIn(ip, Digits) /\ AllIn(fp, Digits)
                /\ Len(ip) + Len(fp) >= 1
                /\ ei /= 0 => (exs /= <<>> /\ AllIn(exs, Digits))
    IN  IF ~ok THEN ValueError
        ELSE LET digs == ip \o fp
                 e10  == (IF ei = 0 THEN 0
                          ELSE IF Len(exs) > 4 THEN (IF eneg THEN -9999 ELSE 9999)
                          ELSE IF eneg THEN -DigitsVal(exs) ELSE DigitsVal(exs))
                         - Len(fp)
                 mag  == SigDigits(digs) + e10
             IN  IF SigDigits(digs) = 0 THEN Zero
                 ELSE IF mag > 309 THEN Inf(sign)
                 ELSE IF mag < -323 THEN Zero
                 ELSE IF e10 >= 0
                      THEN Rat(sign * DigitsVal(digs) * Pow10(e10), 1)
                      ELSE Rat(sign * DigitsVal(digs), Pow10(-e10))

\* float(text) for a str: surrounding whitespace is ignored, then an optional
\* sign, then nan, inf, infinity (any case) or a decimal literal.
PyFloat(text) ==
    LET s    == Strip(text)
        sgn  == IF s /= <<>> /\ s[1] = "-" THEN -1 ELSE 1
        body == IF s /= <<>> /\ s[1] \in {"+", "-"} THEN Tail(s) ELSE s
        low  == LowerSeq(body)
    IN  IF low = <<"n", "a", "n">> THEN NaN
        ELSE IF low = <<"i", "n", "f">>
                \/ low = <<"i", "n", "f", "i", "n", "i", "t", "y">>
             THEN Inf(sgn)
        ELSE PyDecimal(body, sgn)

\* int(text) for a str: [ok, v]; not ok stands for ValueError.
PyInt(text) ==
    LET s    == Strip(text)
        sgn  == IF s /= <<>> /\ s[1] = "-" THEN -1 ELSE 1
        body == IF s /= <<>> /\ s[1] \in {"+", "-"} THEN Tail(s) ELSE s
    IN  IF body /= <<>> /\ AllIn(body, Digits)
        THEN [ok |-> TRUE, v |-> sgn * DigitsVal(body)]
        ELSE [ok |-> FALSE, v |-> 0]

(***************************************************************************)
(* Python values handed to the functions, and dicts.                       *)
(***************************************************************************)
PyStr(t) == [type |-> "str", text |-> t, num |-> Zero]

PyNone == [type |-> "NoneType", text |-> <<>>, num |-> Zero]

PyNum(x) == [type |-> "float", text |-> <<>>, num |-> x]

\* A dict is the sequence of its items in insertion order.
DictKeys(dict) == {dict[i].key : i \in 1..Len(dict)}

DictGet(dict, key) ==
    (dict[CHOOSE i \in 1..Len(dict) : dict[i].key = key]).val

\* dict[key] = val: an existing key keeps its place and takes the new value.
DictSet(dict, key, val) ==
    IF key \in DictKeys(dict)
    THEN [i \in 1..Len(dict) |->
            IF dict[i].key = key THEN [key |-> key, val |-> val] ELSE dict[i]]
    ELSE Append(dict, [key |-> key, val |-> val])

DictValues(dict) == [i \in 1..Len(dict) |-> dict[i].val]

(***************************************************************************)
(* scripts/plot_phase1.py: parse_hist                                      *)
(***************************************************************************)
ValueChars == Digits \cup {"e", "E", "+", ".", "-"}

\* HistTokenMatch with the "+" left out of the captured key, as the pattern
\* ^(\d+)\+?: would do.
HistTokenMatch_KeyWithoutPlus(p) ==
    LET nd   == SpanIn(p, Digits)
        plus == nd < Len(p) /\ p[nd + 1] = "+"
        kl   == IF plus THEN nd + 1 ELSE nd
        rest == LStrip(Drop(p, kl + 1))
        ok   == /\ nd >= 1
                /\ kl < Len(p) /\ p[kl + 1] = ":"
                /\ rest /= <<>> /\ AllIn(rest, ValueChars)
    IN  [ok |-> ok,
         key |-> IF ok THEN Take(p, nd) ELSE <<>>,
         val |-> IF ok THEN rest ELSE <<>>]

\* re.match(r"^(\d+\+?):\s*([0-9eE+.-]+)$", p): [ok, key, val].
HistTokenMatch(p) ==
    LET nd   == SpanIn(p, Digits)
        plus == nd < Len(p) /\ p[nd + 1] = "+"
        kl   == IF plus THEN nd + 1 ELSE nd
        rest == LStrip(Drop(p, kl + 1))
        ok   == /\ nd >= 1
                /\ kl < Len(p) /\ p[kl + 1] = ":"
                /\ rest /= <<>> /\ AllIn(rest, ValueChars)
    IN  [ok |-> ok,
         key |-> IF ok THEN Take(p, kl) ELSE <<>>,
         val |-> IF ok THEN rest ELSE <<>>]

\* ParseHistStep without the try/except around float(): the ValueError
\* leaves parse_hist.
ParseHistStep_NoExcept(acc, p) ==
    LET m == HistTokenMatch(p)
        f == PyFloat(m.val)
    IN  IF acc.exc /= "none" THEN acc
        ELSE IF ~m.ok THEN acc
        ELSE IF f = ValueError THEN [acc EXCEPT !.exc = "ValueError"]
        ELSE [acc EXCEPT !.out = DictSet(@, m.key, f)]

\* ParseHistStep that adds the value to the one the key already has.
ParseHistStep_Sums(acc, p) ==
    LET m == HistTokenMatch(p)
        f == PyFloat(m.val)
    IN  IF acc.exc /= "none" THEN acc
        ELSE IF ~m.ok THEN acc
        ELSE IF f = ValueError THEN acc
        ELSE IF m.key \in DictKeys(acc.out)
        THEN [acc EXCEPT !.out = DictSet(@, m.key, Add(DictGet(@, m.key), f))]
        ELSE [acc EXCEPT !.out = DictSet(@, m.key, f)]

\* One turn of the loop of parse_hist on the token p: a token that does not
\* match, or whose value float() refuses (the ValueError is caught), leaves
\* the dict as it is.
ParseHistStep(acc, p) ==
    LET m == HistTokenMatch(p)
        f == PyFloat(m.val)
    IN  IF acc.exc /= "none" THEN acc
        ELSE IF ~m.ok THEN acc
        ELSE IF f = ValueError THEN acc
        ELSE [acc EXCEPT !.out = DictSet(@, m.key, f)]

RECURSIVE ParseHistLoop(_, _)
ParseHistLoop(parts, acc) ==
    IF parts = <<>> THEN acc
    ELSE ParseHistLoop(Tail(parts), ParseHistStep(acc, parts[1]))

HistParts(text) == StripNonEmpty(Split(text, ","))

parse_hist(arg) ==
    IF arg.type /= "str" \/ Strip(arg.text) = <<>>
    THEN [exc |-> "none", out |-> <<>>]
    ELSE ParseHistLoop(HistParts(arg.text), [exc |-> "none", out |-> <<>>])

(***************************************************************************)
(* scripts/plot_phase1.py: bucket_hist_simplified                          *)
(***************************************************************************)
BucketLabels == {"Empty (0)", "Single (1)", "2-4", "5-8", "9-16", "17+"}

\* The labels in the order of the dict.
BucketOrder == <<"Empty (0)", "Single (1)", "2-4", "5-8", "9-16", "17+">>

\* BucketOf without the test for a trailing "+": int() refuses the overflow
\* key and the item is skipped.
BucketOf_NoOverflowTest(k) ==
    LET i == PyInt(k)
    IN  IF ~i.ok THEN ""
        ELSE IF i.v = 0 THEN "Empty (0)"
        ELSE IF i.v = 1 THEN "Single (1)"
        ELSE IF 2 <= i.v /\ i.v <= 4 THEN "2-4"
        ELSE IF 5 <= i.v /\ i.v <= 8 THEN "5-8"
        ELSE IF 9 <= i.v /\ i.v <= 16 THEN "9-16"
        ELSE "17+"

\* BucketOf with the upper end of 9-16 off by one: 16 falls into 17+.
BucketOf_OffByOne(k) ==
    IF k /= <<>> /\ k[Len(k)] = "+" THEN "17+"
    ELSE LET i == PyInt(k)
         IN  IF ~i.ok THEN ""
             ELSE IF i.v = 0 THEN "Empty (0)"
             ELSE IF i.v = 1 THEN "Single (1)"
             ELSE IF 2 <= i.v /\ i.v <= 4 THEN "2-4"
             ELSE IF 5 <= i.v /\ i.v <= 8 THEN "5-8"
             ELSE IF 9 <= i.v /\ i.v < 16 THEN "9-16"
             ELSE "17+"

\* The bucket an item of the histogram is added to; "" when it is skipped.
BucketOf(k) ==
    IF k /= <<>> /\ k[Len(k)] = "+" THEN "17+"
    ELSE LET i == PyInt(k)
         IN  IF ~i.ok THEN ""
             ELSE IF i.v = 0 THEN "Empty (0)"
             ELSE IF i.v = 1 THEN "Single (1)"
             ELSE IF 2 <= i.v /\ i.v <= 4 THEN "2-4"
             ELSE IF 5 <= i.v /\ i.v <= 8 THEN "5-8"
             ELSE IF 9 <= i.v /\ i.v <= 16 THEN "9-16"
             ELSE "17+"

RECURSIVE BucketLoop(_, _)
BucketLoop(items, buckets) ==
    IF items = <<>> THEN buckets
    ELSE LET b == BucketOf(items[1].key)
         IN  BucketLoop(Tail(items),
                 IF b = "" THEN buckets
                 ELSE [buckets EXCEPT ![b] = Add(@, items[1].val)])

bucket_hist_simplified(hist) ==
    BucketLoop(hist, [l \in BucketLabels |-> Zero])

(***************************************************************************)
(* scripts/plot_multicore.py: parse_per_core_values, per_core_mean         *)
(***************************************************************************)
\* text.replace(pat, ch) for a two-character pattern pat.
RECURSIVE Replace2(_, _, _)
Replace2(text, pat, ch) ==
    IF Len(text) < 2 THEN text
    ELSE IF text[1] = pat[1] /\ text[2] = pat[2]
         THEN <<ch>> \o Replace2(Drop(text, 2), pat, ch)
         ELSE <<text[1]>> \o Replace2(Tail(text), pat, ch)

Contains2(text, pat) ==
    \E i \in 1..(Len(text) - 1) : text[i] = pat[1] /\ text[i + 1] = pat[2]

EscapedNewline == <<"\\", "n">>

EscapedReturn == <<"\\", "r">>

Unescape(text) ==
    IF Contains2(text, EscapedNewline) \/ Contains2(text, EscapedReturn)
    THEN Replace2(Replace2(text, EscapedReturn, "\r"), EscapedNewline, "\n")
    ELSE text

\* str.splitlines(): "\r\n" is one boundary, no empty last line.
RECURSIVE SplitLines(_)
SplitLines(s) ==
    IF s = <<>> THEN <<>>
    ELSE LET i == FirstIn(s, LineBreaks)
         IN  IF i = 0 THEN <<s>>
             ELSE LET skip == IF s[i] = "\r" /\ i < Len(s) /\ s[i + 1] = "\n"
                              THEN i + 1 ELSE i
                  IN  <<Take(s, i - 1)>> \o SplitLines(Drop(s, skip))

\* The inner loop: the parts of one line that float() accepts.
RECURSIVE FloatParts(_)
FloatParts(parts) ==
    IF parts = <<>> THEN <<>>
    ELSE LET f == PyFloat(parts[1])
         IN  (IF f = ValueError THEN <<>> ELSE <<f>>) \o FloatParts(Tail(parts))

RECURSIVE PerCoreLoop(_)
PerCoreLoop(ls) ==
    IF ls = <<>> THEN <<>>
    ELSE FloatParts(StripNonEmpty(Split(ls[1], ","))) \o PerCoreLoop(Tail(ls))

parse_per_core_values(c) ==
    IF c.type = "NoneType" THEN <<>>
    ELSE IF c.type = "float"
         THEN (IF c.num.k = "nan" THEN <<>> ELSE <<c.num>>)
    ELSE LET text == Unescape(Strip(c.text))
         IN  IF text = <<>> THEN <<>> ELSE PerCoreLoop(SplitLines(text))

\* per_core_mean that reports zero, not the missing sentinel, for no values.
per_core_mean_ZeroForEmpty(c) ==
    LET vs == parse_per_core_values(c)
    IN  IF vs = <<>> THEN Zero ELSE DivInt(SumSeq(vs), Len(vs))

per_core_mean(c) ==
    LET vs == parse_per_core_values(c)
    IN  IF vs = <<>> THEN NaN ELSE DivInt(SumSeq(vs), Len(vs))

(***************************************************************************)
(* scripts/plot_multicore.py: read_multicore_csv                           *)
(***************************************************************************)
\* csv.reader([line], delimiter=",", quotechar='"') on one line without line
\* breaks: doubled quotes inside a quoted field, no strict mode.
RECURSIVE CsvLoop(_, _, _, _)
CsvLoop(s, state, field, fields) ==
    IF s = <<>>
    THEN IF state = "START_RECORD" THEN fields ELSE Append(fields, field)
    ELSE LET c == s[1]
             r == Tail(s)
         IN  CASE state \in {"START_RECORD", "START_FIELD"} ->
                    IF c = "\"" THEN CsvLoop(r, "IN_QUOTED_FIELD", <<>>, fields)
                    ELSE IF c = "," THEN CsvLoop(r, "START_FIELD", <<>>, Append(fields, <<>>))
                    ELSE CsvLoop(r, "IN_FIELD", <<c>>, fields)
               [] state = "IN_FIELD" ->
                    IF c = "," THEN CsvLoop(r, "START_FIELD", <<>>, Append(fields, field))
                    ELSE CsvLoop(r, "IN_FIELD", Append(field, c), fields)
               [] state = "IN_QUOTED_FIELD" ->
                    IF c = "\"" THEN CsvLoop(r, "QUOTE_IN_QUOTED_FIELD", field, fields)
                    ELSE CsvLoop(r, "IN_QUOTED_FIELD", Append(field, c), fields)
               [] state = "QUOTE_IN_QUOTED_FIELD" ->
                    IF c = "\"" THEN CsvLoop(r, "IN_QUOTED_FIELD", Append(field, c), fields)
                    ELSE IF c = "," THEN CsvLoop(r, "START_FIELD", <<>>, Append(fields, field))
                    ELSE CsvLoop(r, "IN_FIELD", Append(field, c), fields)

CsvRow(line) == CsvLoop(line, "START_RECORD", <<>>, <<>>)

\* row_start_re asking for two digits or more, as ^\d\d+, would.
row_start_re_TwoDigits(line) ==
    LET nd == SpanIn(line, Digits)
    IN  nd >= 2 /\ nd < Len(line) /\ line[nd + 1] = ","

\* row_start_re = re.compile(r"^\d+,")
row_start_re(line) ==
    LET nd == SpanIn(line, Digits)
    IN  nd >= 1 /\ nd < Len(line) /\ line[nd + 1] = ","

\* ScanStep without the test that skips a blank line: the blank line joins
\* the last buffer like any other continuation.
ScanStep_KeepBlank(rows, line) ==
    IF row_start_re(line) THEN Append(rows, line)
    ELSE IF rows = <<>> THEN rows
    ELSE [rows EXCEPT ![Len(rows)] = @ \o EscapedNewline \o line]

\* One turn of the scan over lines[1:]: a blank line is skipped, a row
\* start opens a buffer, any other line joins the last buffer, if there is one.
ScanStep(rows, line) ==
    IF line = <<>> THEN rows
    ELSE IF row_start_re(line) THEN Append(rows, line)
    ELSE IF rows = <<>> THEN rows
    ELSE [rows EXCEPT ![Len(rows)] = @ \o EscapedNewline \o line]

RECURSIVE ScanLoop(_, _)
ScanLoop(rest, rows) ==
    IF rest = <<>> THEN rows
    ELSE ScanLoop(Tail(rest), ScanStep(rows, rest[1]))

\* PadRow that extends by one cell too few.
PadRow_OneShort(row, header_len) ==
    IF Len(row) < header_len
    THEN row \o [i \in 1..(header_len - Len(row) - 1) |-> <<>>]
    ELSE row

\* row.extend([""] * (header_len - len(row))) when the row is short.
PadRow(row, header_len) ==
    IF Len(row) < header_len
    THEN row \o [i \in 1..(header_len - Len(row)) |-> <<>>]
    ELSE row

BuildRows(rows, header_len) ==
    [i \in 1..Len(rows) |-> PadRow(CsvRow(rows[i]), header_len)]

\* pd.DataFrame(data_rows, columns=header): pandas refuses rows that hold
\* more cells than there are column names.
DataFrame(rows, columns) ==
    IF \E i \in 1..Len(rows) : Len(rows[i]) > Len(columns)
    THEN [exc |-> "ValueError", rows |-> <<>>, columns |-> columns]
    ELSE [exc |-> "none", rows |-> rows, columns |-> columns]

NoFrame == [exc |-> "none", rows |-> <<>>, columns |-> <<>>]

\* The function up to the construction of the DataFrame; the later lines
\* only convert the cells of named columns.
read_multicore_csv(f) ==
    IF ~f.exists
    THEN [exc |-> "FileNotFoundError", header |-> <<>>, row_lines |-> <<>>,
          data_rows |-> <<>>, df |-> NoFrame]
    ELSE IF f.lines = <<>>
    THEN [exc |-> "ValueError", header |-> <<>>, row_lines |-> <<>>,
          data_rows |-> <<>>, df |-> NoFrame]
    ELSE LET hd == CsvRow(f.lines[1])
             rl == ScanLoop(Tail(f.lines), <<>>)
             dr == BuildRows(rl, Len(hd))
             fr == DataFrame(dr, hd)
         IN  [exc |-> fr.exc, header |-> hd, row_lines |-> rl,
              data_rows |-> dr, df |-> fr]

(***************************************************************************)
(* scripts/plot_bdev.py: load_results                                      *)
(***************************************************************************)
\* The str whose characters are the elements of s.
RECURSIVE Str(_)
Str(s) == IF s = <<>> THEN "" ELSE s[1] \o Str(Tail(s))

\* Keys of the dicts csv.DictReader yields: a column name, or the restkey
\* None under which the cells beyond the header are kept.
ColKey(name) == [type |-> "str", name |-> name]

NoneKey == [type |-> "NoneType", name |-> ""]

\* The list of surplus cells kept under the restkey; float() refuses any list.
PyList == [type |-> "list", text |-> <<>>, num |-> Zero]

\* d = dict(zip(self.fieldnames, row))
RECURSIVE ZipDict(_, _, _)
ZipDict(names, row, d) ==
    IF names = <<>> \/ row = <<>> THEN d
    ELSE ZipDict(Tail(names), Tail(row),
                 DictSet(d, ColKey(Str(names[1])), PyStr(row[1])))

\* for key in self.fieldnames[lr:]: d[key] = self.restval
RECURSIVE RestVal(_, _)
RestVal(names, d) ==
    IF names = <<>> THEN d
    ELSE RestVal(Tail(names), DictSet(d, ColKey(Str(names[1])), PyNone))

\* The dict csv.DictReader makes of one row of cells.
DictReaderRow(fieldnames, row) ==
    LET d  == ZipDict(fieldnames, row, <<>>)
        lf == Len(fieldnames)
        lr == Len(row)
    IN  IF lf < lr THEN DictSet(d, NoneKey, PyList)
        ELSE IF lf > lr THEN RestVal(Drop(fieldnames, lr), d)
        ELSE d

\* Iteration of the DictReader over the lines after the header: a row
\* without cells (a blank line) is passed over.  The lines hold no quoted
\* cell that runs over a line break, so a record is a line.
RECURSIVE ReaderRows(_, _)
ReaderRows(fieldnames, lines) ==
    IF lines = <<>> THEN <<>>
    ELSE LET row == CsvRow(lines[1])
         IN  (IF row = <<>> THEN <<>> ELSE <<DictReaderRow(fieldnames, row)>>)
                \o ReaderRows(fieldnames, Tail(lines))

\* rename_map.get(k, k)
rename_map(k) ==
    IF k.type /= "str" THEN k
    ELSE ColKey(CASE k.name = "QD" -> "Queue Depth"
                  [] k.name = "IO_Size" -> "IO Size (Bytes)"
                  [] k.name = "IOPS" -> "IOPS"
                  [] k.name = "p50_Latency" -> "p50 Latency (us)"
                  [] k.name = "p99_Latency" -> "p99 Latency (us)"
                  [] k.name = "p99.9_Latency" -> "p99.9 Latency (us)"
                  [] k.name = "Cycles_Per_IO" -> "Cycles per IO"
                  [] k.name = "Instr_Per_IO" -> "Instructions per IO"
                  [] k.name = "LLC_Misses_Per_IO" -> "LLC Misses per IO"
                  [] k.name = "Dram_Read_Bytes_Per_IO" -> "DRAM Read Bytes per IO"
                  [] k.name = "Dram_Write_Bytes_Per_IO" -> "DRAM Write Bytes per IO"
                  [] k.name = "Energy_Per_IO" -> "Energy per IO (J)"
                  [] OTHER -> k.name)

\* CellValue that keeps no watch on float(): a cell that is not a number
\* becomes the missing marker nan.
CellValue_NanForBad(v) ==
    IF v.type = "NoneType" \/ (v.type = "str" /\ v.text = <<>>) THEN Zero
    ELSE IF v.type /= "str" THEN NaN
    ELSE IF PyFloat(v.text) = ValueError THEN NaN
    ELSE PyFloat(v.text)

\* float(v) if v not in (None, "") else 0.0, and 0.0 when float() raises
\* ValueError (text that is no number) or TypeError (the list of surplus
\* cells).
CellValue(v) ==
    IF v.type = "NoneType" \/ (v.type = "str" /\ v.text = <<>>) THEN Zero
    ELSE IF v.type /= "str" THEN Zero
    ELSE IF PyFloat(v.text) = ValueError THEN Zero
    ELSE PyFloat(v.text)

HistColumn == "Completions_Per_Poll_Hist"

\* One turn of "for k, v in raw.items()".
RecordItem(out, item) ==
    IF item.key = ColKey(HistColumn) THEN out
    ELSE DictSet(out, rename_map(item.key), CellValue(item.val))

RECURSIVE RecordLoop(_, _)
RecordLoop(items, out) ==
    IF items = <<>> THEN out
    ELSE RecordLoop(Tail(items), RecordItem(out, items[1]))

\* The raw dicts the DictReader yields for the file.
RawRows(f) ==
    IF f.lines = <<>> THEN <<>>
    ELSE ReaderRows(CsvRow(f.lines[1]), Tail(f.lines))

load_results(f) ==
    IF ~f.exists THEN [exc |-> "FileNotFoundError", rows |-> <<>>]
    ELSE LET raws == RawRows(f)
         IN  [exc |-> "none",
              rows |-> [i \in 1..Len(raws) |-> RecordLoop(raws[i], <<>>)]]

(***************************************************************************)
(* scripts/plot_bdev.py: _unique_values, _group_mean, lineplot             *)
(***************************************************************************)
\* name in row
HasKey(row, name) == ColKey(name) \in DictKeys(row)

\* row[name]
Get(row, name) == DictGet(row, ColKey(name))

\* Equality of two tuples of floats, as the lookup in a dict decides it.
KeyEq(a, b) == Len(a) = Len(b) /\ \A i \in 1..Len(a) : NumEq(a[i], b[i])

\* The place of the key among the buckets, or 0.
BucketIndex(buckets, key) ==
    IF \E i \in 1..Len(buckets) : KeyEq(buckets[i].key, key)
    THEN CHOOSE i \in 1..Len(buckets) : KeyEq(buckets[i].key, key)
    ELSE 0

\* GroupMeanStep that opens a bucket per record and never joins one.
GroupMeanStep_NeverJoin(buckets, row, keys, value_key) ==
    IF (\E i \in 1..Len(keys) : ~HasKey(row, keys[i])) \/ ~HasKey(row, value_key)
    THEN buckets
    ELSE Append(buckets, [key |-> [i \in 1..Len(keys) |-> Get(row, keys[i])],
                          vals |-> <<Get(row, value_key)>>])

\* GroupMeanStep that also passes over the records whose value is zero.
GroupMeanStep_DropZero(buckets, row, keys, value_key) ==
    IF (\E i \in 1..Len(keys) : ~HasKey(row, keys[i])) \/ ~HasKey(row, value_key)
    THEN buckets
    ELSE IF Get(row, value_key) = Zero THEN buckets
    ELSE LET key == [i \in 1..Len(keys) |-> Get(row, keys[i])]
             at  == BucketIndex(buckets, key)
         IN  IF at = 0
             THEN Append(buckets, [key |-> key, vals |-> <<Get(row, value_key)>>])
             ELSE [buckets EXCEPT ![at].vals = Append(@, Get(row, value_key))]

\* One turn of the first loop of _group_mean: a record that lacks a grouping
\* column or the value column raises KeyError and is passed over (the values
\* of the records are floats, which float() takes as they are); any other
\* record is appended to the bucket of its key tuple, a new bucket when the
\* tuple has not been seen.
GroupMeanStep(buckets, row, keys, value_key) ==
    IF (\E i \in 1..Len(keys) : ~HasKey(row, keys[i])) \/ ~HasKey(row, value_key)
    THEN buckets
    ELSE LET key == [i \in 1..Len(keys) |-> Get(row, keys[i])]
             at  == BucketIndex(buckets, key)
         IN  IF at = 0
             THEN Append(buckets, [key |-> key, vals |-> <<Get(row, value_key)>>])
             ELSE [buckets EXCEPT ![at].vals = Append(@, Get(row, value_key))]

RECURSIVE GroupMeanLoop(_, _, _, _)
GroupMeanLoop(rows, keys, value_key, buckets) ==
    IF rows = <<>> THEN buckets
    ELSE GroupMeanLoop(Tail(rows), keys, value_key,
                       GroupMeanStep(buckets, rows[1], keys, value_key))

\* buckets after the first loop of _group_mean
GroupBuckets(rows, keys, value_key) == GroupMeanLoop(rows, keys, value_key, <<>>)

\* {k: v for k, v in zip(keys, key)}
RECURSIVE ZipOut(_, _, _)
ZipOut(keys, key, out) ==
    IF keys = <<>> \/ key = <<>> THEN out
    ELSE ZipOut(Tail(keys), Tail(key), DictSet(out, ColKey(keys[1]), key[1]))

\* One turn of the second loop: the entry of a bucket.
GroupEntry(b, keys, value_key) ==
    DictSet(ZipOut(keys, b.key, <<>>), ColKey(value_key),
            IF b.vals = <<>> THEN Zero ELSE DivInt(SumSeq(b.vals), Len(b.vals)))

GroupResults(buckets, keys, value_key) ==
    [i \in 1..Len(buckets) |-> GroupEntry(buckets[i], keys, value_key)]

_group_mean(rows, keys, value_key) ==
    GroupResults(GroupBuckets(rows, keys, value_key), keys, value_key)

\* sorted() of a set of numbers
RECURSIVE SortSet(_)
SortSet(S) ==
    IF S = {} THEN <<>>
    ELSE LET m == CHOOSE a \in S : \A b \in S : ~Less(b, a)
         IN  <<m>> \o SortSet(S \ {m})

\* sorted({row[key] for row in rows if key in row})
_unique_values(rows, key) ==
    SortSet({Get(rows[i], key) : i \in {j \in 1..Len(rows) : HasKey(rows[j], key)}})

\* The stable sort puts an entry behind the entries that are not greater.
SortedInsert(s, e, x) ==
    LET p == Cardinality({i \in 1..Len(s) : ~Less(Get(e, x), Get(s[i], x))})
    IN  Take(s, p) \o <<e>> \o Drop(s, p)

\* sorted(agg, key=lambda r: r[x])
RECURSIVE SortedBy(_, _)
SortedBy(agg, x) ==
    IF agg = <<>> THEN <<>>
    ELSE SortedInsert(SortedBy(Take(agg, Len(agg) - 1), x), agg[Len(agg)], x)

\* [r for r in rows if r.get(hue) == hv]
RECURSIVE SubRows(_, _, _)
SubRows(rows, hue, hv) ==
    IF rows = <<>> THEN <<>>
    ELSE (IF HasKey(rows[1], hue) /\ NumEq(Get(rows[1], hue), hv)
          THEN <<rows[1]>> ELSE <<>>) \o SubRows(Tail(rows), hue, hv)

\* Line that plots the groups as _group_mean returns them.
Line_Unsorted(sub_rows, x, y, hued, hv) ==
    [hued |-> hued, hv |-> hv, sub_rows |-> sub_rows,
     buckets |-> GroupBuckets(sub_rows, <<x>>, y),
     agg |-> _group_mean(sub_rows, <<x>>, y),
     agg_sorted |-> _group_mean(sub_rows, <<x>>, y)]

\* One line of the plot: the records of one hue value (all records when
\* there is no hue column), the buckets and the result of _group_mean on
\* them, and the sorted sequence that is plotted.
Line(sub_rows, x, y, hued, hv) ==
    [hued |-> hued, hv |-> hv, sub_rows |-> sub_rows,
     buckets |-> GroupBuckets(sub_rows, <<x>>, y),
     agg |-> _group_mean(sub_rows, <<x>>, y),
     agg_sorted |-> SortedBy(_group_mean(sub_rows, <<x>>, y), x)]

\* lineplot: None without records or without the column y in the first
\* record; else the lines, and the path when save_plot succeeded.
lineplot(rows, x, y, hue, saved) ==
    IF rows = <<>> \/ ~HasKey(rows[1], y)
    THEN [ret |-> "None", lines |-> <<>>]
    ELSE [ret |-> IF saved THEN "path" ELSE "None",
          lines |-> IF HasKey(rows[1], hue)
                    THEN LET hvs == _unique_values(rows, hue)
                         IN  [i \in 1..Len(hvs) |->
                                Line(SubRows(rows, hue, hvs[i]), x, y, TRUE, hvs[i])]
                    ELSE <<Line(rows, x, y, FALSE, Zero)>>]

\* valid_y = [c for c in y_vars if rows and c in rows[0]]
RECURSIVE ValidY(_, _)
ValidY(rows, y_vars) ==
    IF y_vars = <<>> THEN <<>>
    ELSE (IF rows /= <<>> /\ HasKey(rows[1], y_vars[1]) THEN <<y_vars[1]>> ELSE <<>>)
            \o ValidY(rows, Tail(y_vars))

\* The lines of one metric: one per hue value, or one of all records.
MetricLines(rows, x, metric, hue) ==
    IF HasKey(rows[1], hue)
    THEN LET hvs == _unique_values(rows, hue)
         IN  [i \in 1..Len(hvs) |->
                Line(SubRows(rows, hue, hvs[i]), x, metric, TRUE, hvs[i])]
    ELSE <<Line(rows, x, metric, FALSE, Zero)>>

RECURSIVE MeltLines(_, _, _, _)
MeltLines(rows, x, metrics, hue) ==
    IF metrics = <<>> THEN <<>>
    ELSE MetricLines(rows, x, metrics[1], hue) \o MeltLines(rows, x, Tail(metrics), hue)

\* lineplot_melt: None when no column of y_vars is in the first record (or
\* there is no record); else the lines of every column that is, and the path
\* when save_plot succeeded.  A non-empty valid_y means that there is a
\* first record for "hue in rows[0]".
lineplot_melt(rows, x, y_vars, hue, saved) ==
    IF ValidY(rows, y_vars) = <<>>
    THEN [ret |-> "None", lines |-> <<>>]
    ELSE [ret |-> IF saved THEN "path" ELSE "None",
          lines |-> MeltLines(rows, x, ValidY(rows, y_vars), hue)]

(***************************************************************************)
(* scripts/plot_phase1.py: plot_completions_stacked_by_qd, the percentages *)
(* of one row.                                                             *)
(***************************************************************************)
\* total = sum(b_hist.values())
BucketTotal(bh) == SumSeq([i \in 1..Len(BucketOrder) |-> bh[BucketOrder[i]]])

\* NormHist that divides whatever the total is.
NormHist_NoGuard(bh) ==
    [l \in BucketLabels |-> MulInt(Div(bh[l], BucketTotal(bh)), 100)]

\* if total > 0: {k: (v / total) * 100 ...} else: {k: 0.0 for k in buckets}
NormHist(bh) ==
    IF Less(Zero, BucketTotal(bh))
    THEN [l \in BucketLabels |-> MulInt(Div(bh[l], BucketTotal(bh)), 100)]
    ELSE [l \in BucketLabels |-> Zero]

(***************************************************************************)
(* scripts/plot_phase1.py: _stacked_stage_bar.  A DataFrame is its set of  *)
(* column names and the sequence of its rows, each a function from the     *)
(* column names to numbers.                                                *)
(***************************************************************************)
complete_cols == <<"CQE_Detect_ns", "Tracker_Lookup_ns", "State_Dealloc_ns">>

\* subset = df[df[size_col] == io_size]
Subset(frm, size_col_, io_size) ==
    SelectSeq(frm.rows, LAMBDA r : NumEq(r[size_col_], io_size))

\* The places in stage_cols of the columns that subset lacks.
MissingStage(frm, stage_cols) ==
    {i \in 1..Len(stage_cols) : stage_cols[i] \notin frm.columns}

\* The mean of a column over the rows of one group.
GroupMeanOf(rows, col) ==
    DivInt(SumSeq([i \in 1..Len(rows) |-> rows[i][col]]), Len(rows))

\* One row of means: the group of one queue depth, the mean of every stage
\* column, their sum and the percentage of every stage.
StageMeansRow(subset, qd_col_, qd, stage_cols) ==
    LET rows  == SelectSeq(subset, LAMBDA r : NumEq(r[qd_col_], qd))
        means == [i \in 1..Len(stage_cols) |-> GroupMeanOf(rows, stage_cols[i])]
        total == SumSeq(means)
    IN  [qd |-> qd, means |-> means, Total |-> total,
         pct |-> [i \in 1..Len(stage_cols) |->
                     IF Less(Zero, total) THEN Div(MulInt(means[i], 100), total)
                     ELSE Zero]]

\* means = subset.groupby(qd_col)[stage_cols].mean(...), with Total and the
\* percentages; the groups are in ascending order of the queue depth.
StageMeans(subset, qd_col_, stage_cols) ==
    LET qds == SortSet({subset[i][qd_col_] : i \in 1..Len(subset)})
    IN  [j \in 1..Len(qds) |-> StageMeansRow(subset, qd_col_, qds[j], stage_cols)]

NoStage == [exc |-> "none", ret |-> "None", placeholder |-> FALSE, means |-> <<>>]

\* _stacked_stage_bar that draws the "No data" placeholder wherever a column
\* is missing.
_stacked_stage_bar_Skip(frm, io_size, qd_col_, size_col_, stage_cols) ==
    IF size_col_ \notin frm.columns
    THEN [NoStage EXCEPT !.ret = "path", !.placeholder = TRUE]
    ELSE IF Subset(frm, size_col_, io_size) = <<>>
    THEN [NoStage EXCEPT !.ret = "path", !.placeholder = TRUE]
    ELSE IF MissingStage(frm, stage_cols) /= {}
    THEN [NoStage EXCEPT !.ret = "path", !.placeholder = TRUE]
    ELSE IF qd_col_ \notin frm.columns
    THEN [NoStage EXCEPT !.ret = "path", !.placeholder = TRUE]
    ELSE [NoStage EXCEPT !.ret = "path",
                         !.means = StageMeans(Subset(frm, size_col_, io_size),
                                              qd_col_, stage_cols)]

\* _stacked_stage_bar: df[size_col] raises KeyError when the column is
\* missing; an empty selection gives the "No data" placeholder figure; a
\* missing stage column raises KeyError; groupby(qd_col) raises KeyError
\* when that column is missing; else the stacked bars are drawn.
_stacked_stage_bar(frm, io_size, qd_col_, size_col_, stage_cols) ==
    IF size_col_ \notin frm.columns
    THEN [NoStage EXCEPT !.exc = "KeyError"]
    ELSE IF Subset(frm, size_col_, io_size) = <<>>
    THEN [NoStage EXCEPT !.ret = "path", !.placeholder = TRUE]
    ELSE IF MissingStage(frm, stage_cols) /= {}
    THEN [NoStage EXCEPT !.exc = "KeyError"]
    ELSE IF qd_col_ \notin frm.columns
    THEN [NoStage EXCEPT !.exc = "KeyError"]
    ELSE [NoStage EXCEPT !.ret = "path",
                         !.means = StageMeans(Subset(frm, size_col_, io_size),
                                              qd_col_, stage_cols)]

(***************************************************************************)
(* scripts/plot_bdev.py: plot_histograms                                   *)
(***************************************************************************)
\* mid = (row["start_us"] + row["end_us"]) / 2.0
Mid(row) == DivInt(Add(row.start_us, row.end_us), 2)

\* dict.get(key, 0.0)
CountGet(dict, key) == IF key \in DictKeys(dict) THEN DictGet(dict, key) ELSE Zero

\* MergeStep whose second accumulation leaves the queue depth out of its key.
MergeStep_NoQueueDepth(acc, row) ==
    LET key == <<row.io_size, Rat(1, 1), Mid(row)>>
    IN  [overall_counts |->
             DictSet(acc.overall_counts, Mid(row),
                     Add(CountGet(acc.overall_counts, Mid(row)), row.count)),
         agg_counts |->
             DictSet(acc.agg_counts, key, Add(CountGet(acc.agg_counts, key), row.count))]

\* MergeStep whose first accumulation stores the count of the sample in
\* place of adding it.
MergeStep_OverallOverwrites(acc, row) ==
    LET key == <<row.io_size, row.qd, Mid(row)>>
    IN  [overall_counts |-> DictSet(acc.overall_counts, Mid(row), row.count),
         agg_counts |->
             DictSet(acc.agg_counts, key, Add(CountGet(acc.agg_counts, key), row.count))]

\* One turn of the merging loop: the count of the sample is added to the
\* entry of its midpoint and to the entry of its (IO size, queue depth,
\* midpoint).
MergeStep(acc, row) ==
    LET key == <<row.io_size, row.qd, Mid(row)>>
    IN  [overall_counts |->
             DictSet(acc.overall_counts, Mid(row),
                     Add(CountGet(acc.overall_counts, Mid(row)), row.count)),
         agg_counts |->
             DictSet(acc.agg_counts, key, Add(CountGet(acc.agg_counts, key), row.count))]

\* total or 1.0
OrOne(total) == IF total = Zero THEN Rat(1, 1) ELSE total

\* Percent that leaves out the factor 100.
Percent_Fraction(c, total) == Div(c, total)

\* (c / total) * 100.0
Percent(c, total) == MulInt(Div(c, total), 100)

NoDist == [mids |-> <<>>, pct |-> <<>>]

\* The overall figure: mids and pct handed to ax.plot; nothing is drawn
\* when overall_counts is empty.
OverallDist(counts) ==
    IF counts = <<>> THEN NoDist
    ELSE LET total == OrOne(SumSeq(DictValues(counts)))
             mids  == SortSet(DictKeys(counts))
         IN  [mids |-> mids,
              pct |-> [i \in 1..Len(mids) |->
                          Percent(DictGet(counts, mids[i]), total)]]

\* SeriesDist that divides by the total of all series.
SeriesDist_GrandTotal(agg, io_size, qd) ==
    LET mids   == SortSet({k[3] : k \in {h \in DictKeys(agg) :
                                             h[1] = io_size /\ h[2] = qd}})
        counts == [i \in 1..Len(mids) |-> DictGet(agg, <<io_size, qd, mids[i]>>)]
        total  == OrOne(SumSeq(DictValues(agg)))
    IN  [io_size |-> io_size, qd |-> qd, mids |-> mids,
         pct |-> [i \in 1..Len(mids) |-> Percent(counts[i], total)]]

\* The line of one queue depth in the figure of one IO size.
SeriesDist(agg, io_size, qd) ==
    LET mids   == SortSet({k[3] : k \in {h \in DictKeys(agg) :
                                             h[1] = io_size /\ h[2] = qd}})
        counts == [i \in 1..Len(mids) |-> DictGet(agg, <<io_size, qd, mids[i]>>)]
        total  == OrOne(SumSeq(counts))
    IN  [io_size |-> io_size, qd |-> qd, mids |-> mids,
         pct |-> [i \in 1..Len(mids) |-> Percent(counts[i], total)]]

\* The figure of one IO size: one line per queue depth, ascending.
SizeFigure(agg, io_size) ==
    LET qds == SortSet({k[2] : k \in {h \in DictKeys(agg) : h[1] = io_size}})
    IN  [j \in 1..Len(qds) |-> SeriesDist(agg, io_size, qds[j])]

\* The figures of the IO sizes, ascending.
SizeFigures(agg) ==
    LET io_sizes == SortSet({k[1] : k \in DictKeys(agg)})
    IN  [i \in 1..Len(io_sizes) |-> SizeFigure(agg, io_sizes[i])]

\* The figures plot_histograms tries to save: the overall one and one per
\* IO size.
FigureNames(counts, agg) ==
    (IF counts = <<>> THEN {} ELSE {[kind |-> "hist_overall", io_size |-> Zero]})
        \cup {[kind |-> "hist_io", io_size |-> k[1]] : k \in DictKeys(agg)}

(***************************************************************************)
(* scripts/apply_ssd_profile.py: apply_config.  A file is whether it       *)
(* exists and the characters it holds; updates is a dict from keys to      *)
(* integers.                                                               *)
(***************************************************************************)
\* What a file opened for reading in text mode hands out: "\r\n" and "\r"
\* read as "\n" (universal newlines, the default of open()).
RECURSIVE UniversalNewlines(_)
UniversalNewlines(text) ==
    IF text = <<>> THEN <<>>
    ELSE IF text[1] = "\r"
    THEN <<"\n">> \o UniversalNewlines(IF Len(text) >= 2 /\ text[2] = "\n"
                                       THEN Drop(text, 2) ELSE Tail(text))
    ELSE <<text[1]>> \o UniversalNewlines(Tail(text))

\* The lines of a text, each with the newline that ends it.
RECURSIVE LinesOf(_)
LinesOf(text) ==
    IF text = <<>> THEN <<>>
    ELSE LET i == FirstIn(text, {"\n"})
         IN  IF i = 0 THEN <<text>>
             ELSE <<Take(text, i)>> \o LinesOf(Drop(text, i))

\* f.readlines()
readlines(text) == LinesOf(UniversalNewlines(text))

\* f.writelines(lines): on Linux "\n" is written as it is.
RECURSIVE writelines(_)
writelines(lines) ==
    IF lines = <<>> THEN <<>> ELSE lines[1] \o writelines(Tail(lines))

DigitChars == <<"0", "1", "2", "3", "4", "5", "6", "7", "8", "9">>

\* f"{value}" of an integer
RECURSIVE FormatInt(_)
FormatInt(n) ==
    IF n < 0 THEN <<"-">> \o FormatInt(-n)
    ELSE IF n < 10 THEN <<DigitChars[n + 1]>>
    ELSE FormatInt(n \div 10) \o <<DigitChars[(n % 10) + 1]>>

\* str.startswith
StartsWith(text, prefix) ==
    Len(text) >= Len(prefix) /\ Take(text, Len(prefix)) = prefix

\* The inner loop over updates.items(): the first key the stripped line
\* starts with (followed by " =") replaces the line by "key = value\n";
\* a line no key matches is kept.
RECURSIVE PatchLine(_, _)
PatchLine(line, items) ==
    IF items = <<>> THEN line
    ELSE IF StartsWith(Strip(line), items[1].key \o <<" ", "=">>)
    THEN items[1].key \o <<" ", "=", " ">> \o FormatInt(items[1].val) \o <<"\n">>
    ELSE PatchLine(line, Tail(items))

\* out_lines
PatchLines(lines, items) == [i \in 1..Len(lines) |-> PatchLine(lines[i], items)]

NoConfig == [exists |-> FALSE, text |-> <<>>]

\* apply_config: open() raises FileNotFoundError when there is no config
\* file; the lines as read are written to the backup when there is none yet,
\* and the patched lines to the config file.
apply_config(cfg, bak, items) ==
    IF ~cfg.exists
    THEN [exc |-> "FileNotFoundError", config |-> cfg, backup |-> bak]
    ELSE LET lines == readlines(cfg.text)
         IN  [exc |-> "none",
              config |-> [exists |-> TRUE, text |-> writelines(PatchLines(lines, items))],
              backup |-> IF bak.exists THEN bak
                         ELSE [exists |-> TRUE, text |-> writelines(lines)]]

(***************************************************************************)
(* Inputs.                                                                 *)
(***************************************************************************)
SeqsUpTo(S, n) == UNION {[1..m -> S] : m \in 0..n}

\* Tokens of histogram strings: well-formed ones for every bucket, an
\* overflow key, a repeated key, a negative, a fractional and an exponent
\* value, a bad key, a value float() refuses, an empty token.
HistTokens ==
    {<<"0", ":", "5", "0">>,
     <<" ", "1", ":", "2", "0">>,
     <<"3", ":", "5">>,
     <<"3", "+", ":", "7">>,
     <<"3", ":", "-", "2">>,
     <<"1", "7", ":", "1">>,
     <<"8", ":", " ", "2", ".", "5">>,
     <<"1", "6", ":", "1", "e", "1">>,
     <<"x", ":", "1">>,
     <<"5", ":", "1", "e">>,
     <<>>}

\* The round-trip scenario "0:50, 1:20, 3:5, 9:3, 40+:2".
HistScenario ==
    <<"0", ":", "5", "0", ",", " ", "1", ":", "2", "0", ",", " ", "3", ":", "5", ",", " ", "9", ":", "3", ",", " ", "4", "0", "+", ":", "2">>

\* A string with the keys at both ends of every bucket range.
HistEdges ==
    <<"2", ":", "1", ",", "4", ":", "2", ",", "5", ":", "3", ",", "8", ":", "4", ",", "9", ":", "5", ",", "1", "6", ":", "6", ",", "1", "7", ":", "7">>

HistArgs ==
    {PyStr(Join(ts, <<",">>)) : ts \in SeqsUpTo(HistTokens, MaxTokens)}
        \cup {PyStr(HistScenario), PyStr(HistEdges), PyStr(<<" ">>), PyNone,
              PyNum(Rat(5, 1))}

\* Header lines of 2, 3 and 5 columns.
HeaderLines ==
    {<<"i", "d", ",", "a">>,
     <<"i", "d", ",", "a", ",", "b">>,
     <<"i", "d", ",", "a", ",", "b", ",", "c", ",", "d">>}

\* Physical lines after the header: row starts of 2, 3 and 4 cells, a blank
\* line, continuation lines, a row whose quoted cell is cut by a line break.
DataLines ==
    {<<"1", ",", "x">>,
     <<"2", ",", "x", ",", "y">>,
     <<"3", ",", "x", ",", "y", ",", "z">>,
     <<>>,
     <<"x", ",", "y">>,
     <<"7">>,
     <<"4", ",", "\"", "p">>,
     <<"q", "\"", ",", "r">>}

Files ==
    {[exists |-> TRUE, lines |-> <<h>> \o ls] :
         h \in HeaderLines, ls \in SeqsUpTo(DataLines, MaxLines)}
        \cup {[exists |-> TRUE, lines |-> <<>>], [exists |-> FALSE, lines |-> <<>>]}

NoFile == [exists |-> FALSE, lines |-> <<>>]

\* Header lines of results files: with and without the column of the x axis
\* (QD), of the hue (IO_Size) and of the value (IOPS), one with a latency
\* column and one with the histogram column.
ResultHeaders ==
    {<<"Q", "D", ",", "I", "O", "P", "S">>,
     <<"Q", "D", ",", "I", "O", "_", "S", "i", "z", "e", ",", "I", "O", "P", "S">>,
     <<"I", "O", "_", "S", "i", "z", "e", ",", "I", "O", "P", "S">>,
     <<"Q", "D", ",", "I", "O", "_", "S", "i", "z", "e">>,
     <<"Q", "D", ",", "p", "5", "0", "_", "L", "a", "t", "e", "n", "c", "y">>,
     <<"Q", "D", ",", "C", "o", "m", "p", "l", "e", "t", "i", "o", "n", "s", "_", "P", "e", "r", "_", "P", "o", "l", "l", "_", "H", "i", "s", "t", ",", "I", "O", "P", "S">>}

\* Lines of results files: rows of two and three cells (the first three are
\* the scenario of the grouped mean), a cell that is no number, an empty
\* cell, a cell float() reads as nan, a blank line, a row of one cell.  The
\* cells of the first two columns, which hold the keys of the groups and of
\* the lines, are numbers or become 0.0; none of them reads as nan.
ResultLines ==
    {<<"1", ",", "1", "0">>,
     <<"1", ",", "2", "0">>,
     <<"2", ",", "5">>,
     <<"2", ",", "5", "1", "2", ",", "5">>,
     <<"1", ",", "5", "1", "2", ",", "x">>,
     <<"1", ",", "4", "0", "9", "6", ",">>,
     <<"1", ",", "5", "1", "2", ",", "n", "a", "n">>,
     <<>>,
     <<"2">>}

\* The scenario of the grouped mean: (qd=1, val=10), (qd=1, val=20),
\* (qd=2, val=5) under the header QD,IOPS.
GroupScenario ==
    <<<<"Q", "D", ",", "I", "O", "P", "S">>,
      <<"1", ",", "1", "0">>, <<"1", ",", "2", "0">>, <<"2", ",", "5">>>>

ResultFiles ==
    {[exists |-> TRUE, lines |-> <<h>> \o ls] :
         h \in ResultHeaders, ls \in SeqsUpTo(ResultLines, MaxLines)}
        \cup {[exists |-> TRUE, lines |-> <<>>], [exists |-> FALSE, lines |-> <<>>]}

Sample(io_size, qd, run, start_us, end_us, count) ==
    [io_size |-> Rat(io_size, 1), qd |-> Rat(qd, 1), run |-> Rat(run, 1),
     start_us |-> Rat(start_us, 1), end_us |-> Rat(end_us, 1),
     count |-> Rat(count, 1)]

\* Time-window samples: two runs of one series with the midpoint 12.5 and
\* the counts 100 and 50 (the scenario of the merger), another window with
\* the same midpoint, another midpoint, a count of zero, another queue depth
\* and another IO size.
HistSamples ==
    {Sample(4096, 1, 1, 10, 15, 100),
     Sample(4096, 1, 2, 10, 15, 50),
     Sample(4096, 1, 1, 5, 20, 50),
     Sample(4096, 1, 1, 15, 20, 50),
     Sample(4096, 1, 2, 15, 20, 0),
     Sample(4096, 2, 1, 10, 15, 50),
     Sample(512, 1, 1, 15, 20, 100),
     Sample(512, 2, 2, 10, 15, 0)}

\* The columns a DataFrame of _stacked_stage_bar can have.
AllStageColumns ==
    {"IO Size (Bytes)", "Queue Depth"} \cup {complete_cols[i] : i \in 1..Len(complete_cols)}

StageRow(size, qd, detect, lookup, dealloc) ==
    [c \in AllStageColumns |->
        CASE c = "IO Size (Bytes)"   -> Rat(size, 1)
          [] c = "Queue Depth"       -> Rat(qd, 1)
          [] c = "CQE_Detect_ns"     -> Rat(detect, 1)
          [] c = "Tracker_Lookup_ns" -> Rat(lookup, 1)
          [] OTHER                   -> Rat(dealloc, 1)]

\* Rows of 4 KB at two queue depths, one of them with stages of zero, and a
\* row of another IO size.
StageRows ==
    {StageRow(4096, 1, 10, 30, 60),
     StageRow(4096, 1, 30, 10, 0),
     StageRow(4096, 2, 0, 0, 0),
     StageRow(512, 1, 5, 5, 10)}

\* DataFrames: up to MaxRows rows, under every non-empty choice of columns.
StageFrames ==
    {[columns |-> cols, rows |-> [i \in 1..Len(rs) |-> [c \in cols |-> rs[i][c]]]] :
         cols \in (SUBSET AllStageColumns) \ {{}}, rs \in SeqsUpTo(StageRows, MaxRows)}

EmptyFrame == [columns |-> {}, rows |-> <<>>]

\* The IO sizes main asks for.
StageSizes == {Rat(4096, 1), Rat(16384, 1)}

\* Pieces of config files: settings that end in "\n" and in "\r\n", an
\* indented setting, a comment, a section header, a last line without a
\* newline and without the blank before the value.
ConfigPieces ==
    {<<"E", "r", "a", "s", "e", " ", "=", " ", "1", "\n">>,
     <<"E", "r", "a", "s", "e", " ", "=", " ", "1", "\r", "\n">>,
     <<" ", " ", "L", "S", "B", "R", "e", "a", "d", " ", "=", " ", "2", "\n">>,
     <<"#", " ", "x", "\r", "\n">>,
     <<"[", "n", "a", "n", "d", "]", "\n">>,
     <<"E", "r", "a", "s", "e", " ", "=", "3">>}

ConfigFiles ==
    {[exists |-> TRUE, text |-> writelines(ps)] : ps \in SeqsUpTo(ConfigPieces, MaxConfigLines)}
        \cup {NoConfig}

Update(key, val) == [key |-> key, val |-> val]

\* The updates of a call: one key, two keys, and other values.
UpdateDicts ==
    {<<Update(<<"E", "r", "a", "s", "e">>, 70)>>,
     <<Update(<<"L", "S", "B", "R", "e", "a", "d">>, 25),
       Update(<<"E", "r", "a", "s", "e">>, 70)>>,
     <<Update(<<"E", "r", "a", "s", "e">>, 8)>>}

\* Tokens of per-core cells: numbers, a token float() refuses, the words
\* float() reads as nan and infinities, an empty token.
CellParts ==
    {<<"1", "0">>,
     <<"2", "0">>,
     <<" ", "1", ".", "5", " ">>,
     <<"x">>,
     <<"n", "a", "n">>,
     <<"-", "i", "n", "f">>,
     <<"i", "n", "f">>,
     <<>>}

\* Separators: a comma, the escaped newline, a raw newline, the escaped
\* carriage return.
CellSeps ==
    {<<",">>,
     <<"\\", "n">>,
     <<"\n">>,
     <<"\\", "r">>}

\* The scenario cell "10,20\\n30" (escaped form).
CellScenario ==
    <<"1", "0", ",", "2", "0", "\\", "n", "3", "0">>

\* p1 sep p2 sep ... pn for 1 <= n <= MaxParts.
RECURSIVE CellTexts(_)
CellTexts(n) ==
    IF n = 1 THEN CellParts
    ELSE CellTexts(n - 1)
            \cup {c \o sp \o p : c \in CellTexts(n - 1), sp \in CellSeps, p \in CellParts}

Cells ==
    {PyStr(c) : c \in CellTexts(MaxParts)}
        \cup {PyStr(CellScenario), PyNone, PyNum(Rat(5, 1)), PyNum(Zero), PyNum(NaN)}

(***************************************************************************)
(* The state machine: one call of one of the functions on one input.       *)
(***************************************************************************)
NoResult == [exc |-> "none", out |-> <<>>]

NoPlot == [ret |-> "None", lines |-> <<>>]

NoBuckets == [l \in BucketLabels |-> Zero]

Init ==
    /\ call \in {"parse_hist", "read_multicore_csv", "per_core_mean", "plot_one",
                 "plot_histograms", "_stacked_stage_bar", "apply_config"}
    /\ pc = "call"
    /\ hist_str \in (IF call = "parse_hist" THEN HistArgs ELSE {PyNone})
    /\ file \in (IF call = "read_multicore_csv" THEN Files ELSE {NoFile})
    /\ cell \in (IF call = "per_core_mean" THEN Cells ELSE {PyNone})
    /\ raw_hist = NoResult
    /\ b_hist = NoBuckets
    /\ exc = "none"
    /\ header = <<>>
    /\ row_lines = <<>>
    /\ data_rows = <<>>
    /\ df = NoFrame
    /\ values = <<>>
    /\ mean = NaN
    /\ csv_path \in (IF call = "plot_one" THEN ResultFiles ELSE {NoFile})
    /\ records = <<>>
    /\ plot = NoPlot
    /\ hist_rows \in (IF call = "plot_histograms"
                      THEN SeqsUpTo(HistSamples, MaxSamples) ELSE {<<>>})
    /\ row_i = 1
    /\ overall_counts = <<>>
    /\ agg_counts = <<>>
    /\ overall_dist = NoDist
    /\ size_dists = <<>>
    /\ plots = {}
    /\ melt = NoPlot
    /\ norm_hist = NoBuckets
    /\ frame \in (IF call = "_stacked_stage_bar" THEN StageFrames ELSE {EmptyFrame})
    /\ stage_size \in (IF call = "_stacked_stage_bar" THEN StageSizes ELSE {Zero})
    /\ stage = NoStage
    /\ config \in (IF call = "apply_config" THEN ConfigFiles ELSE {NoConfig})
    /\ backup = NoConfig
    /\ original = config
    /\ updates = <<>>
    /\ before = NoConfig
    /\ calls = 0

\* One turn of the loop of plot_completions_stacked_by_qd:
\* raw_hist = parse_hist(...); b_hist = bucket_hist_simplified(raw_hist);
\* norm_hist = the percentages of b_hist.
ParseAndBucket ==
    /\ pc = "call" /\ call = "parse_hist"
    /\ raw_hist' = parse_hist(hist_str)
    /\ b_hist' = IF raw_hist'.exc = "none"
                 THEN bucket_hist_simplified(raw_hist'.out) ELSE b_hist
    /\ norm_hist' = IF raw_hist'.exc = "none" THEN NormHist(b_hist') ELSE norm_hist
    /\ pc' = "return"
    /\ UNCHANGED <<call, hist_str, file, exc, header, row_lines, data_rows, df,
                   cell, values, mean, bdevVars, histVars, stageVars, configVars>>

ReadMulticoreCsv ==
    /\ pc = "call" /\ call = "read_multicore_csv"
    /\ LET r == read_multicore_csv(file)
       IN  /\ exc' = r.exc
           /\ header' = r.header
           /\ row_lines' = r.row_lines
           /\ data_rows' = r.data_rows
           /\ df' = r.df
    /\ pc' = "return"
    /\ UNCHANGED <<call, hist_str, raw_hist, b_hist, file, cell, values, mean,
                   bdevVars, histVars, norm_hist, stageVars, configVars>>

PerCoreMean ==
    /\ pc = "call" /\ call = "per_core_mean"
    /\ values' = parse_per_core_values(cell)
    /\ mean' = per_core_mean(cell)
    /\ pc' = "return"
    /\ UNCHANGED <<call, hist_str, raw_hist, b_hist, file, exc, header,
                   row_lines, data_rows, df, cell, bdevVars, histVars, norm_hist,
                   stageVars, configVars>>

qd_col == "Queue Depth"

size_col == "IO Size (Bytes)"

\* plot_one: rows = load_results(csv_path)
LoadResults ==
    /\ pc = "call" /\ call = "plot_one"
    /\ LET r == load_results(csv_path)
       IN  /\ records' = r.rows
           /\ exc' = r.exc
           /\ pc' = IF r.exc = "none" THEN "loaded" ELSE "return"
    /\ UNCHANGED <<call, coreVars, csv_path, plot, melt, histVars, norm_hist,
                   stageVars, configVars>>

latency_vars == <<"p50 Latency (us)", "p99 Latency (us)", "p99.9 Latency (us)">>

\* plot_one: lineplot(agg, qd_col, "IOPS", size_col, ...) and
\* lineplot_melt(agg, qd_col, [the latency columns], size_col, ...);
\* save_plot may fail for either.
Lineplot ==
    /\ pc = "loaded" /\ call = "plot_one"
    /\ \E saved \in BOOLEAN :
          plot' = lineplot(records, qd_col, "IOPS", size_col, saved)
    /\ \E saved \in BOOLEAN :
          melt' = lineplot_melt(records, qd_col, latency_vars, size_col, saved)
    /\ pc' = "return"
    /\ UNCHANGED <<call, coreVars, exc, csv_path, records, histVars, norm_hist,
                   stageVars, configVars>>

\* MergeSample that takes the rows off the list it is given.
MergeSample_ConsumesInput ==
    /\ pc = "call" /\ call = "plot_histograms"
    /\ row_i <= Len(hist_rows)
    /\ LET acc == MergeStep([overall_counts |-> overall_counts,
                             agg_counts |-> agg_counts], hist_rows[row_i])
       IN  /\ overall_counts' = acc.overall_counts
           /\ agg_counts' = acc.agg_counts
    /\ hist_rows' = Tail(hist_rows)
    /\ UNCHANGED <<call, pc, exc, coreVars, bdevVars, row_i, overall_dist,
                   size_dists, plots, norm_hist, stageVars, configVars>>

\* plot_histograms: one turn of "for row in hist_rows".
MergeSample ==
    /\ pc = "call" /\ call = "plot_histograms"
    /\ row_i <= Len(hist_rows)
    /\ LET acc == MergeStep([overall_counts |-> overall_counts,
                             agg_counts |-> agg_counts], hist_rows[row_i])
       IN  /\ overall_counts' = acc.overall_counts
           /\ agg_counts' = acc.agg_counts
    /\ row_i' = row_i + 1
    /\ UNCHANGED <<call, pc, exc, coreVars, bdevVars, hist_rows, overall_dist,
                   size_dists, plots, norm_hist, stageVars, configVars>>

\* plot_histograms after the loop (at once, when hist_rows is empty): the
\* distributions are computed and drawn; each figure is returned when
\* save_plot succeeded for it.
PlotHistograms ==
    /\ pc = "call" /\ call = "plot_histograms"
    /\ row_i > Len(hist_rows)
    /\ overall_dist' = OverallDist(overall_counts)
    /\ size_dists' = SizeFigures(agg_counts)
    /\ plots' \in SUBSET FigureNames(overall_counts, agg_counts)
    /\ pc' = "return"
    /\ UNCHANGED <<call, exc, coreVars, bdevVars, hist_rows, row_i,
                   overall_counts, agg_counts, norm_hist, stageVars, configVars>>

\* main: _stacked_stage_bar(df, io_size, qd_col, size_col, complete_cols, ...)
StackedStageBar ==
    /\ pc = "call" /\ call = "_stacked_stage_bar"
    /\ stage' = _stacked_stage_bar(frame, stage_size, qd_col, size_col, complete_cols)
    /\ exc' = stage'.exc
    /\ pc' = "return"
    /\ UNCHANGED <<call, coreVars, bdevVars, histVars, norm_hist, frame, stage_size,
                   configVars>>

\* One call of apply_config(config_path, updates) on the same path; a call
\* that raised ends the run.
ApplyConfig ==
    /\ call = "apply_config" /\ exc = "none" /\ calls < MaxCalls
    /\ \E u \in UpdateDicts :
          LET r == apply_config(config, backup, u)
          IN  /\ updates' = u
              /\ exc' = r.exc
              /\ config' = r.config
              /\ backup' = r.backup
    /\ before' = config
    /\ calls' = calls + 1
    /\ pc' = "return"
    /\ UNCHANGED <<call, coreVars, bdevVars, histVars, norm_hist, stageVars, original>>

Next ==
    \/ ParseAndBucket
    \/ ReadMulticoreCsv
    \/ PerCoreMean
    \/ LoadResults
    \/ Lineplot
    \/ MergeSample
    \/ PlotHistograms
    \/ StackedStageBar
    \/ ApplyConfig

Spec == Init /\ [][Next]_vars

(***************************************************************************)
(* Properties.                                                             *)
(***************************************************************************)
Returned(f) == pc = "return" /\ call = f

\* C1: conservation law: the six bucket counts of
\* bucket_hist_simplified(parse_hist(s)) sum to the sum of the counts of
\* parse_hist(s).
C1_Conservation ==
    Returned("parse_hist") =>
        /\ DOMAIN b_hist = BucketLabels
        /\ NumEq(BucketTotal(b_hist), SumSeq(DictValues(raw_hist.out)))

\* C1 witness: an entry of three keys, one of them an overflow key, whose
\* counts land in three buckets.
C1_Witness ==
    /\ Returned("parse_hist")
    /\ Len(raw_hist.out) = 3
    /\ \E i \in 1..3 : raw_hist.out[i].key = <<"3", "+">>
    /\ Cardinality({l \in BucketLabels : b_hist[l] /= Zero}) = 3
    /\ BucketTotal(b_hist) /= Zero

\* The rule of the claim, stated on the key's parts: its integer and whether
\* it carries the overflow mark.
KeyIsOverflow(key) == key[Len(key)] = "+"

KeyInteger(key) ==
    DigitsVal(IF KeyIsOverflow(key) THEN Take(key, Len(key) - 1) ELSE key)

RuleLabel(key) ==
    LET i == KeyInteger(key)
    IN  CASE KeyIsOverflow(key) -> "17+"
          [] ~KeyIsOverflow(key) /\ i = 0 -> "Empty (0)"
          [] ~KeyIsOverflow(key) /\ i = 1 -> "Single (1)"
          [] ~KeyIsOverflow(key) /\ i \in 2..4 -> "2-4"
          [] ~KeyIsOverflow(key) /\ i \in 5..8 -> "5-8"
          [] ~KeyIsOverflow(key) /\ i \in 9..16 -> "9-16"
          [] ~KeyIsOverflow(key) /\ i > 16 -> "17+"

\* The counts of the items of hist whose key the rule sends to label l.
RECURSIVE CountsFor(_, _)
CountsFor(hist, l) ==
    IF hist = <<>> THEN <<>>
    ELSE (IF RuleLabel(hist[1].key) = l THEN <<hist[1].val>> ELSE <<>>)
            \o CountsFor(Tail(hist), l)

\* C6: the result has exactly the six labels and each holds the sum of the
\* counts of the keys the mapping rule sends to it; the scenario string
\* yields {Empty(0):50, Single(1):20, 2-4:5, 5-8:0, 9-16:3, 17+:2}.
C6_BucketRule ==
    Returned("parse_hist") =>
        /\ DOMAIN b_hist = BucketLabels
        /\ \A l \in BucketLabels :
              NumEq(b_hist[l], SumSeq(CountsFor(raw_hist.out, l)))
        /\ hist_str = PyStr(HistScenario) =>
              b_hist = [l \in BucketLabels |->
                          CASE l = "Empty (0)" -> Rat(50, 1)
                            [] l = "Single (1)" -> Rat(20, 1)
                            [] l = "2-4" -> Rat(5, 1)
                            [] l = "5-8" -> Zero
                            [] l = "9-16" -> Rat(3, 1)
                            [] l = "17+" -> Rat(2, 1)]

\* C6 witness: the scenario string has been bucketed.
C6_Witness ==
    /\ Returned("parse_hist")
    /\ hist_str = PyStr(HistScenario)
    /\ Len(raw_hist.out) = 5
    /\ b_hist["9-16"] = Rat(3, 1)

\* C6 second case: the keys at both ends of every range, 2 and 4 in 2-4,
\* 5 and 8 in 5-8, 9 and 16 in 9-16, 17 in 17+.
C6_EdgeReached ==
    /\ Returned("parse_hist")
    /\ hist_str = PyStr(HistEdges)
    /\ b_hist["2-4"] = Rat(3, 1)
    /\ b_hist["5-8"] = Rat(7, 1)
    /\ b_hist["9-16"] = Rat(11, 1)
    /\ b_hist["17+"] = Rat(7, 1)

\* The tokens of a histogram string: its comma-separated pieces, trimmed,
\* the empty ones left out.
TokensOf(text) ==
    LET ps == Split(text, ",")
        ix == {i \in 1..Len(ps) : Strip(ps[i]) /= <<>>}
        nth(j) == CHOOSE i \in ix : Cardinality({h \in ix : h < i}) = j - 1
    IN  [j \in 1..Cardinality(ix) |-> Strip(ps[nth(j)])]

\* The token t reads as key, ':', optional blanks, value characters, with
\* the key of kl characters and the value starting at vs.
ReadsAs(t, kl, vs) ==
    LET digits == IF t[kl] = "+" THEN kl - 1 ELSE kl
    IN  /\ digits >= 1
        /\ \A i \in 1..digits : t[i] \in Digits
        /\ t[kl + 1] = ":"
        /\ \A i \in (kl + 2)..(vs - 1) : t[i] \in Whitespace
        /\ \A i \in vs..Len(t) : t[i] \in ValueChars

MatchesPattern(t) ==
    \E kl \in 1..Len(t), vs \in 1..Len(t) : kl + 1 < vs /\ ReadsAs(t, kl, vs)

\* A token that matches the pattern and whose value is a number.
WellFormedToken(t) ==
    \E kl \in 1..Len(t), vs \in 1..Len(t) :
        kl + 1 < vs /\ ReadsAs(t, kl, vs)
            /\ PyFloat(SubSeq(t, vs, Len(t))) /= ValueError

TokenKey(t) == Take(t, FirstIn(t, {":"}) - 1)

TokenValue(t) ==
    PyFloat(SubSeq(t, CHOOSE vs \in 1..Len(t) :
                          \E kl \in 1..Len(t) : kl + 1 < vs /\ ReadsAs(t, kl, vs),
                   Len(t)))

\* The last well-formed token of ts that carries the key.
LastTokenWith(ts, key) ==
    ts[CHOOSE i \in 1..Len(ts) :
           /\ WellFormedToken(ts[i]) /\ TokenKey(ts[i]) = key
           /\ \A j \in (i + 1)..Len(ts) :
                 ~(WellFormedToken(ts[j]) /\ TokenKey(ts[j]) = key)]

\* C7: a HistogramEntry parse_hist produces from a string whose tokens all
\* match the key:value pattern has only non-negative counts and unique keys.
C7_NonNegativeUnique ==
    (/\ Returned("parse_hist") /\ hist_str.type = "str"
     /\ \A i \in 1..Len(TokensOf(hist_str.text)) :
           MatchesPattern(TokensOf(hist_str.text)[i])) =>
        /\ raw_hist.exc = "none"
        /\ \A i \in 1..Len(raw_hist.out) : NonNegative(raw_hist.out[i].val)
        /\ \A i, j \in 1..Len(raw_hist.out) :
              raw_hist.out[i].key = raw_hist.out[j].key => i = j

\* C7, the part the code keeps: the keys of the entry are unique.
C7_UniqueKeys ==
    Returned("parse_hist") =>
        \A i, j \in 1..Len(raw_hist.out) :
            raw_hist.out[i].key = raw_hist.out[j].key => i = j

\* C8: parse_hist never raises; its entry holds the keys of exactly the
\* well-formed tokens (a token that does not match, or whose value is not a
\* number, is skipped, the others are parsed); a non-string, empty or blank
\* argument yields the empty entry.
C8_NeverRaises ==
    Returned("parse_hist") =>
        /\ raw_hist.exc = "none"
        /\ (hist_str.type /= "str" \/ Strip(hist_str.text) = <<>>) =>
              raw_hist.out = <<>>
        /\ hist_str.type = "str" =>
              LET ts == TokensOf(hist_str.text)
              IN  DictKeys(raw_hist.out) =
                     {TokenKey(ts[i]) : i \in {j \in 1..Len(ts) : WellFormedToken(ts[j])}}

\* C8 witness: a string with a token that does not match, a token whose
\* value float() refuses and a well-formed token, which is the one parsed.
C8_Witness ==
    /\ Returned("parse_hist")
    /\ hist_str.type = "str"
    /\ LET ts == TokensOf(hist_str.text)
       IN  /\ Len(ts) = 3
           /\ \E i \in 1..3 : ~MatchesPattern(ts[i])
           /\ \E i \in 1..3 : MatchesPattern(ts[i]) /\ ~WellFormedToken(ts[i])
           /\ \E i \in 1..3 : WellFormedToken(ts[i])
    /\ Len(raw_hist.out) = 1

\* C8 second case: a non-string argument gave the empty entry.
C8_NonStringReached ==
    Returned("parse_hist") /\ hist_str.type /= "str" /\ raw_hist.out = <<>>

\* C9: 'N+' and 'N' are distinct keys: when a string holds well-formed tokens
\* for both, the entry holds both keys, each with the count of the last
\* token that carries it.
C9_OverflowDistinct ==
    (Returned("parse_hist") /\ hist_str.type = "str") =>
        LET ts == TokensOf(hist_str.text)
            wf == {i \in 1..Len(ts) : WellFormedToken(ts[i])}
        IN  \A i, j \in wf :
                TokenKey(ts[j]) = TokenKey(ts[i]) \o <<"+">> =>
                    /\ {TokenKey(ts[i]), TokenKey(ts[j])} \subseteq DictKeys(raw_hist.out)
                    /\ DictGet(raw_hist.out, TokenKey(ts[i]))
                          = TokenValue(LastTokenWith(ts, TokenKey(ts[i])))
                    /\ DictGet(raw_hist.out, TokenKey(ts[j]))
                          = TokenValue(LastTokenWith(ts, TokenKey(ts[j])))

\* C9 witness: "3:5" and "3+:7" in one string, both counts kept apart.
C9_Witness ==
    /\ Returned("parse_hist")
    /\ hist_str.type = "str"
    /\ {<<"3", ":", "5">>, <<"3", "+", ":", "7">>}
          \subseteq {TokensOf(hist_str.text)[i] : i \in 1..Len(TokensOf(hist_str.text))}
    /\ Len(raw_hist.out) = 2
    /\ DictGet(raw_hist.out, <<"3">>) = Rat(5, 1)
    /\ DictGet(raw_hist.out, <<"3", "+">>) = Rat(7, 1)

\* A file that exists and has a header line.
HasHeader == file.exists /\ file.lines /= <<>>

\* The physical lines after the header.
Body == Tail(file.lines)

\* The header's column count H.
H == Len(header)

\* C2: every logical row the reconstructor produces has exactly H cells,
\* also when a logical row tokenizes to more than H cells.
C2_RowsHaveHeaderWidth ==
    (Returned("read_multicore_csv") /\ HasHeader) =>
        /\ exc = "none"
        /\ \A i \in 1..Len(data_rows) : Len(data_rows[i]) = H

\* C3: a logical row buffer that tokenizes to n < H cells becomes those n
\* cells, unchanged and in order, followed by exactly H - n empty cells.
C3_RightPadded ==
    (Returned("read_multicore_csv") /\ HasHeader) =>
        /\ Len(data_rows) = Len(row_lines)
        /\ \A i \in 1..Len(row_lines) :
              LET toks == CsvRow(row_lines[i])
                  n    == Len(toks)
              IN  n < H =>
                     /\ Len(data_rows[i]) = H
                     /\ \A j \in 1..n : data_rows[i][j] = toks[j]
                     /\ \A j \in (n + 1)..H : data_rows[i][j] = <<>>

\* C3 witness: the header has 5 columns and a row buffer of 3 tokens became
\* a row of 5 cells, the last 2 empty.
C3_Witness ==
    /\ Returned("read_multicore_csv") /\ HasHeader
    /\ H = 5
    /\ \E i \in 1..Len(row_lines) :
          /\ Len(CsvRow(row_lines[i])) = 3
          /\ Len(data_rows[i]) = 5
          /\ data_rows[i][3] /= <<>>
          /\ data_rows[i][4] = <<>> /\ data_rows[i][5] = <<>>

\* A line that begins with one or more digits followed by a comma.
BeginsWithDigitsComma(line) ==
    \E n \in 1..(Len(line) - 1) :
        (\A i \in 1..n : line[i] \in Digits) /\ line[n + 1] = ","

\* The positions in Body of the lines that start a row, and the k-th of them.
StartsAt == {i \in 1..Len(Body) : BeginsWithDigitsComma(Body[i])}

NthStart(k) ==
    CHOOSE i \in StartsAt : Cardinality({h \in StartsAt : h < i}) = k - 1

\* Where the buffer opened by the k-th row start ends: before the next row
\* start, or at the last line.
EndOfRow(k) ==
    IF k < Cardinality(StartsAt) THEN NthStart(k + 1) - 1 ELSE Len(Body)

\* The lines from..to of Body, each preceded by the escaped-newline marker;
\* blank lines are left out when skipBlank.
RECURSIVE Continuations(_, _, _)
Continuations(from, to, skipBlank) ==
    IF from > to THEN <<>>
    ELSE (IF skipBlank /\ Body[from] = <<>> THEN <<>>
          ELSE EscapedNewline \o Body[from])
            \o Continuations(from + 1, to, skipBlank)

\* The buffers the scan is said to build: one per row start, in order, the
\* lines up to the next row start appended; lines before the first row start
\* belong to no buffer.
BuffersAre(skipBlank) ==
    /\ Len(row_lines) = Cardinality(StartsAt)
    /\ \A k \in 1..Len(row_lines) :
          row_lines[k] = Body[NthStart(k)]
                            \o Continuations(NthStart(k) + 1, EndOfRow(k), skipBlank)

\* C4 as stated: a line starts a buffer iff it begins with digits and a
\* comma; every other line is appended to the most recent buffer, joined by
\* the escaped-newline marker; such a line before any row start is discarded.
C4_EveryOtherLineAppended ==
    (Returned("read_multicore_csv") /\ HasHeader) => BuffersAre(FALSE)

\* C4 amended: every other line that is not blank is appended; a blank line
\* is skipped and adds nothing to any buffer.
C4_NonBlankLinesAppended ==
    (Returned("read_multicore_csv") /\ HasHeader) => BuffersAre(TRUE)

\* C4 witness: a row start followed by a blank line and a continuation
\* line: the buffer is the row start, the marker and the continuation.
C4_Witness ==
    /\ Returned("read_multicore_csv") /\ HasHeader
    /\ Len(Body) = 3
    /\ BeginsWithDigitsComma(Body[1])
    /\ Body[2] = <<>>
    /\ Body[3] /= <<>> /\ ~BeginsWithDigitsComma(Body[3])
    /\ row_lines = <<Body[1] \o EscapedNewline \o Body[3]>>

\* C4 second case: a continuation line before any row start was discarded.
C4_DiscardReached ==
    /\ Returned("read_multicore_csv") /\ HasHeader
    /\ Len(Body) = 2
    /\ Body[1] /= <<>> /\ ~BeginsWithDigitsComma(Body[1])
    /\ BeginsWithDigitsComma(Body[2])
    /\ row_lines = <<Body[2]>>

\* Every logical row occupies exactly one physical line: each line after the
\* header is a row start.
OneLinePerRow == \A i \in 1..Len(Body) : BeginsWithDigitsComma(Body[i])

\* C5 as stated: on such input the reconstructed rows are the rows obtained
\* by tokenizing each physical line after the header, same number and order.
C5_IdentityOnWellFormed ==
    (Returned("read_multicore_csv") /\ HasHeader /\ OneLinePerRow) =>
        data_rows = [i \in 1..Len(Body) |-> CsvRow(Body[i])]

\* C5 amended: on such input the row buffers are the physical lines, and
\* the reconstructed rows are their tokenizations, a row short of H cells
\* being right-padded with empty cells to H.
C5_IdentityUpToPadding ==
    (Returned("read_multicore_csv") /\ HasHeader /\ OneLinePerRow) =>
        /\ row_lines = Body
        /\ Len(data_rows) = Len(Body)
        /\ \A i \in 1..Len(Body) :
              LET toks == CsvRow(Body[i])
              IN  /\ Len(data_rows[i]) = (IF Len(toks) < H THEN H ELSE Len(toks))
                  /\ \A j \in 1..Len(toks) : data_rows[i][j] = toks[j]
                  /\ \A j \in (Len(toks) + 1)..Len(data_rows[i]) :
                        data_rows[i][j] = <<>>

\* C5 witness: three one-line rows, one of them short of the header's width.
C5_Witness ==
    /\ Returned("read_multicore_csv") /\ HasHeader /\ OneLinePerRow
    /\ Len(Body) = 3
    /\ Len(data_rows) = 3
    /\ \E i \in 1..3 : Len(CsvRow(Body[i])) < H
    /\ \E i \in 1..3 : Len(CsvRow(Body[i])) = H /\ data_rows[i] = CsvRow(Body[i])

\* The tokens of a per-core cell: the pieces of its text between commas,
\* escaped newlines (the marker, or the escaped carriage return) and line
\* breaks; cur is the piece being read.
RECURSIVE CellTokens(_, _)
CellTokens(text, cur) ==
    IF text = <<>> THEN <<cur>>
    ELSE IF Len(text) >= 2 /\ text[1] = "\\" /\ text[2] \in {"n", "r"}
         THEN <<cur>> \o CellTokens(Drop(text, 2), <<>>)
    ELSE IF text[1] = "," \/ text[1] \in LineBreaks
         THEN <<cur>> \o CellTokens(Tail(text), <<>>)
    ELSE CellTokens(Tail(text), Append(cur, text[1]))

\* The numbers among the tokens, in order.
RECURSIVE NumbersOf(_)
NumbersOf(toks) ==
    IF toks = <<>> THEN <<>>
    ELSE (IF PyFloat(toks[1]) = ValueError THEN <<>> ELSE <<PyFloat(toks[1])>>)
            \o NumbersOf(Tail(toks))

\* The flat list of the cell: a numeric cell is a singleton list, a missing
\* cell (None, or the nan pandas stores for one) has no value.
FlatList(c) ==
    CASE c.type = "NoneType" -> <<>>
      [] c.type = "float" -> IF c.num.k = "nan" THEN <<>> ELSE <<c.num>>
      [] c.type = "str" -> NumbersOf(CellTokens(c.text, <<>>))

AllFinite(xs) == \A i \in 1..Len(xs) : xs[i].k = "fin"

\* C10 as stated: per_core_mean returns the mean of the flat list, and the
\* missing sentinel, never zero, exactly when the list is empty; the scenario
\* cell gives [10, 20, 30] and mean 20.
C10_MeanOrSentinelExactly ==
    Returned("per_core_mean") =>
        LET flat == FlatList(cell)
        IN  /\ (mean.k = "nan") <=> (flat = <<>>)
            /\ flat /= <<>> => mean = DivInt(SumSeq(flat), Len(flat))
            /\ cell = PyStr(CellScenario) =>
                  /\ values = <<Rat(10, 1), Rat(20, 1), Rat(30, 1)>>
                  /\ mean = Rat(20, 1)

\* C10 amended: the sentinel is returned whenever the list is empty; a
\* non-empty list gives its IEEE mean, which is a number when all its values
\* are finite, and is nan, like the sentinel, when the list holds a nan or
\* infinities of both signs.
C10_MeanOrSentinel ==
    Returned("per_core_mean") =>
        LET flat == FlatList(cell)
        IN  /\ flat = <<>> => mean = NaN
            /\ flat /= <<>> => mean = DivInt(SumSeq(flat), Len(flat))
            /\ (flat /= <<>> /\ AllFinite(flat)) =>
                  /\ mean.k = "fin"
                  /\ mean.n * SumSeq(flat).d * Len(flat) = SumSeq(flat).n * mean.d
                  /\ values = flat
            /\ cell = PyStr(CellScenario) =>
                  /\ values = <<Rat(10, 1), Rat(20, 1), Rat(30, 1)>>
                  /\ mean = Rat(20, 1)

\* C10 witness: the scenario cell gave the mean 20.
C10_Witness ==
    /\ Returned("per_core_mean")
    /\ cell = PyStr(CellScenario)
    /\ Len(values) = 3
    /\ mean = Rat(20, 1)

\* C10 second case: a text cell with no number gave the sentinel.
C10_AllNonNumericReached ==
    /\ Returned("per_core_mean")
    /\ cell.type = "str" /\ cell.text /= <<>>
    /\ FlatList(cell) = <<>>
    /\ mean = NaN

(***************************************************************************)
(* Properties of the grouped aggregation of scripts/plot_bdev.py.          *)
(***************************************************************************)
\* The calls _group_mean(sub_rows, [x], y) that lineplot made.
GroupCalls == IF Returned("plot_one") THEN 1..Len(plot.lines) ELSE {}

\* The key tuples observed in the records: the values of the grouping column.
ObservedKeys(rs, x) ==
    {Get(rs[j], x) : j \in {h \in 1..Len(rs) : HasKey(rs[h], x)}}

\* The values of column y of the records whose column x equals k, in order.
RECURSIVE ValuesWith(_, _, _, _)
ValuesWith(rs, x, k, y) ==
    IF rs = <<>> THEN <<>>
    ELSE (IF HasKey(rs[1], x) /\ NumEq(Get(rs[1], x), k)
          THEN <<Get(rs[1], y)>> ELSE <<>>) \o ValuesWith(Tail(rs), x, k, y)

\* m is the arithmetic mean of vs.
IsMeanOf(m, vs) ==
    IF AllFinite(vs)
    THEN m.k = "fin" /\ m.n * SumSeq(vs).d * Len(vs) = SumSeq(vs).n * m.d
    ELSE m = DivInt(SumSeq(vs), Len(vs))

\* C11: _group_mean returns exactly one entry per distinct grouping-key
\* tuple observed in the records, holding the arithmetic mean of the value
\* column over all records with that tuple; a group of one record returns
\* that record's value unchanged; the records (qd=1,val=10), (qd=1,val=20),
\* (qd=2,val=5) grouped by qd give {qd=1: 15, qd=2: 5}.
C11_OneEntryPerKeyWithMean ==
    /\ \A c \in GroupCalls :
          LET rs  == plot.lines[c].sub_rows
              agg == plot.lines[c].agg
          IN  /\ {Get(agg[e], qd_col) : e \in 1..Len(agg)} = ObservedKeys(rs, qd_col)
              /\ Len(agg) = Cardinality(ObservedKeys(rs, qd_col))
              /\ \A e \in 1..Len(agg) :
                    LET vs == ValuesWith(rs, qd_col, Get(agg[e], qd_col), "IOPS")
                    IN  /\ DictKeys(agg[e]) = {ColKey(qd_col), ColKey("IOPS")}
                        /\ vs /= <<>>
                        /\ IsMeanOf(Get(agg[e], "IOPS"), vs)
                        /\ Len(vs) = 1 => Get(agg[e], "IOPS") = vs[1]
    /\ (Returned("plot_one") /\ csv_path.lines = GroupScenario) =>
          /\ Len(plot.lines) = 1
          /\ {<<Get(plot.lines[1].agg[e], qd_col), Get(plot.lines[1].agg[e], "IOPS")>> :
                  e \in 1..Len(plot.lines[1].agg)}
                = {<<Rat(1, 1), Rat(15, 1)>>, <<Rat(2, 1), Rat(5, 1)>>}

\* C11 witness: the scenario has been aggregated into its two groups.
C11_Witness ==
    /\ Returned("plot_one") /\ csv_path.lines = GroupScenario
    /\ Len(plot.lines) = 1
    /\ Len(plot.lines[1].sub_rows) = 3
    /\ Len(plot.lines[1].agg) = 2
    /\ \E e \in 1..2 : Get(plot.lines[1].agg[e], "IOPS") = Rat(15, 1)

\* The sizes of the groups, summed.
RECURSIVE GroupSizes(_)
GroupSizes(buckets) ==
    IF buckets = <<>> THEN 0
    ELSE Len(buckets[1].vals) + GroupSizes(Tail(buckets))

\* The records that hold the grouping column and the value column.
Groupable(rs, x, y) == {j \in 1..Len(rs) : HasKey(rs[j], x) /\ HasKey(rs[j], y)}

\* C12 as stated: _group_mean performs no filtering: every input record
\* contributes to exactly one group, so the group sizes sum to the number of
\* input records.
C12_NoFiltering ==
    \A c \in GroupCalls :
        LET rs == plot.lines[c].sub_rows
            bs == plot.lines[c].buckets
        IN  /\ GroupSizes(bs) = Len(rs)
            /\ \A j \in 1..Len(rs) :
                  Cardinality({b \in 1..Len(bs) :
                      HasKey(rs[j], qd_col) /\ KeyEq(bs[b].key, <<Get(rs[j], qd_col)>>)}) = 1

\* C12 amended: every input record that holds the grouping column and the
\* value column contributes to exactly one group, whatever its value (the
\* zero of a failed coercion included), so the group sizes sum to the number
\* of those records; a record that lacks one of the columns is passed over
\* and contributes to no group.
C12_NoFilteringOfHeldColumns ==
    \A c \in GroupCalls :
        LET rs == plot.lines[c].sub_rows
            bs == plot.lines[c].buckets
        IN  /\ GroupSizes(bs) = Cardinality(Groupable(rs, qd_col, "IOPS"))
            /\ \A j \in Groupable(rs, qd_col, "IOPS") :
                  Cardinality({b \in 1..Len(bs) :
                      KeyEq(bs[b].key, <<Get(rs[j], qd_col)>>)}) = 1
            /\ \A b \in 1..Len(bs) :
                  bs[b].vals = ValuesWith(rs, qd_col, bs[b].key[1], "IOPS")
            /\ Groupable(rs, qd_col, "IOPS") = {} => bs = <<>>

\* C12 witness: three records with both columns, one of them with the value
\* zero, make groups whose sizes sum to three.
C12_Witness ==
    \E c \in GroupCalls :
        LET rs == plot.lines[c].sub_rows
            bs == plot.lines[c].buckets
        IN  /\ Len(rs) = 3
            /\ Groupable(rs, qd_col, "IOPS") = 1..3
            /\ \E j \in 1..3 : Get(rs[j], "IOPS") = Zero
            /\ \E j \in 1..3 : Get(rs[j], "IOPS") /= Zero
            /\ GroupSizes(bs) = 3
            /\ Len(bs) = 2

\* C12 second case: records without the grouping column were passed over.
C12_SkipReached ==
    \E c \in GroupCalls :
        /\ Len(plot.lines[c].sub_rows) >= 2
        /\ \A j \in 1..Len(plot.lines[c].sub_rows) :
              ~HasKey(plot.lines[c].sub_rows[j], qd_col)
        /\ plot.lines[c].buckets = <<>>

\* The sequences that hold the elements of rs in another order.
Reorderings(rs) ==
    {[i \in 1..Len(rs) |-> rs[f[i]]] : f \in Permutations(1..Len(rs))}

\* The entries are in strictly ascending order of column x.
Ascending(entries, x) ==
    \A i \in 1..(Len(entries) - 1) : Less(Get(entries[i], x), Get(entries[i + 1], x))

\* C13 as stated: the output of _group_mean is ordered by ascending key
\* tuple regardless of the order of the records: inputs that are
\* permutations of each other produce the same output sequence.
C13_AggregatorOutputOrdered ==
    \A c \in GroupCalls :
        /\ Ascending(plot.lines[c].agg, qd_col)
        /\ \A q \in Reorderings(plot.lines[c].sub_rows) :
              _group_mean(q, <<qd_col>>, "IOPS") = plot.lines[c].agg

\* C13 amended: _group_mean returns the groups in the order in which their
\* keys first occur in the records; lineplot sorts them by the x column
\* before it plots them, and that sorted sequence holds the same groups, is
\* in ascending order of the key and is the same for every permutation of
\* the records.
C13_PlottedSequenceOrdered ==
    \A c \in GroupCalls :
        LET rs  == plot.lines[c].sub_rows
            agg == plot.lines[c].agg
            srt == plot.lines[c].agg_sorted
        IN  /\ \A e, g \in 1..Len(agg) :
                  e < g =>
                      \E j \in 1..Len(rs) :
                          /\ HasKey(rs[j], qd_col)
                          /\ Get(rs[j], qd_col) = Get(agg[e], qd_col)
                          /\ \A h \in 1..j :
                                HasKey(rs[h], qd_col) =>
                                    Get(rs[h], qd_col) /= Get(agg[g], qd_col)
            /\ Len(srt) = Len(agg)
            /\ {srt[e] : e \in 1..Len(srt)} = {agg[e] : e \in 1..Len(agg)}
            /\ Ascending(srt, qd_col)
            /\ \A q \in Reorderings(rs) :
                  SortedBy(_group_mean(q, <<qd_col>>, "IOPS"), qd_col) = srt

\* C13 witness: records whose keys come in descending order: _group_mean
\* returned the group of 2 before the group of 1, the plotted sequence has
\* them in ascending order.
C13_Witness ==
    \E c \in GroupCalls :
        /\ Len(plot.lines[c].agg) = 2
        /\ Get(plot.lines[c].agg[1], qd_col) = Rat(2, 1)
        /\ Get(plot.lines[c].agg[2], qd_col) = Rat(1, 1)
        /\ Get(plot.lines[c].agg_sorted[1], qd_col) = Rat(1, 1)
        /\ Get(plot.lines[c].agg_sorted[2], qd_col) = Rat(2, 1)
        /\ Len(plot.lines[c].sub_rows) = 3

(***************************************************************************)
(* Properties of load_results.                                             *)
(***************************************************************************)
Loaded == call = "plot_one" /\ pc \in {"loaded", "return"} /\ exc = "none"

\* The rows of the input: the cells of the lines after the header that are
\* not blank (the lines hold no quotes, so the cells are the pieces between
\* the commas).
RECURSIVE InputRows(_)
InputRows(lines) ==
    IF lines = <<>> THEN <<>>
    ELSE (IF lines[1] = <<>> THEN <<>> ELSE <<Split(lines[1], ",")>>)
            \o InputRows(Tail(lines))

\* The names of the columns of the input.
InputColumns(lines) ==
    LET hd == Split(lines[1], ",") IN [p \in 1..Len(hd) |-> Str(hd[p])]

\* The value the claim gives to the cell at column p of a row.
ClaimedValue(row, p) ==
    IF p > Len(row) THEN Zero
    ELSE IF row[p] = <<>> THEN Zero
    ELSE IF PyFloat(row[p]) = ValueError THEN Zero
    ELSE PyFloat(row[p])

\* C14: load_results never aborts on a bad cell: every column of the input
\* row other than the histogram column is present in the record (under the
\* name the script gives it), with the value 0.0 when the cell is empty,
\* absent or not parsable as a number, and with the parsed number otherwise.
C14_EveryColumnPresent ==
    /\ (call = "plot_one" /\ pc /= "call" /\ csv_path.exists) => exc = "none"
    /\ (Loaded /\ csv_path.lines /= <<>>) =>
          LET cols == InputColumns(csv_path.lines)
              body == InputRows(Tail(csv_path.lines))
          IN  /\ Len(records) = Len(body)
              /\ \A i \in 1..Len(body) :
                    /\ \A p \in 1..Len(cols) :
                          IF cols[p] = "Completions_Per_Poll_Hist"
                          THEN ~HasKey(records[i], cols[p])
                          ELSE /\ rename_map(ColKey(cols[p])) \in DictKeys(records[i])
                               /\ DictGet(records[i], rename_map(ColKey(cols[p])))
                                     = ClaimedValue(body[i], p)
                    /\ \A e \in 1..Len(records[i]) : records[i][e].val /= ValueError

\* C14 witness: a file whose three rows hold a cell that is no number, an
\* empty or absent cell and parsed numbers gave three records with every
\* column.
C14_Witness ==
    /\ Loaded /\ Len(records) = 3
    /\ InputColumns(csv_path.lines) = <<"QD", "IO_Size", "IOPS">>
    /\ LET body == InputRows(Tail(csv_path.lines))
       IN  /\ \E i \in 1..3 : Len(body[i]) = 3 /\ PyFloat(body[i][3]) = ValueError
                                /\ body[i][3] /= <<>>
           /\ \E i \in 1..3 : Len(body[i]) < 3
           /\ \E i \in 1..3 : Len(body[i]) = 3 /\ body[i][3] = <<"5">>
    /\ \A i \in 1..3 :
          DictKeys(records[i]) = {ColKey(qd_col), ColKey(size_col), ColKey("IOPS")}
    /\ \E i \in 1..3 : Get(records[i], "IOPS") = Rat(5, 1)

\* C14 second case: an empty cell and the histogram column.
C14_HistColumnReached ==
    /\ Loaded /\ Len(records) >= 1
    /\ "Completions_Per_Poll_Hist" \in
          {InputColumns(csv_path.lines)[p] : p \in 1..Len(InputColumns(csv_path.lines))}
    /\ \E i \in 1..Len(records) :
          /\ Len(InputRows(Tail(csv_path.lines))[i]) = 3
          /\ InputRows(Tail(csv_path.lines))[i][3] = <<>>
          /\ Get(records[i], "IOPS") = Zero

(***************************************************************************)
(* Properties of the time-window histogram merger (plot_histograms).       *)
(***************************************************************************)
\* The counts of the samples that satisfy Keep, in order.
CountsOf(samples, Keep(_)) ==
    LET kept == SelectSeq(samples, Keep)
    IN  [i \in 1..Len(kept) |-> kept[i].count]

\* The summed count of the samples with the midpoint m.
CountAtMid(samples, m) ==
    LET Keep(r) == Mid(r) = m IN SumSeq(CountsOf(samples, Keep))

\* The grand total count.
GrandTotal(samples) ==
    LET Keep(r) == TRUE IN SumSeq(CountsOf(samples, Keep))

\* 100 times c, divided by total.
PercentOf(c, total) == Div(MulInt(c, 100), total)

ScenarioSamples ==
    <<Sample(4096, 1, 1, 10, 15, 100), Sample(4096, 1, 2, 10, 15, 50)>>

\* C15: in the overall distribution the value for each distinct midpoint is
\* 100 times the sum of the counts of all samples with that midpoint
\* (whatever their IO size, queue depth or run) divided by the grand total
\* count; when the grand total is positive the percentages sum to 100; two
\* samples with the midpoint 12.5 and the counts 100 and 50 give 100% at 12.5.
C15_OverallPercentages ==
    Returned("plot_histograms") =>
        LET total == GrandTotal(hist_rows)
            mids  == overall_dist.mids
            pct   == overall_dist.pct
        IN  /\ {mids[i] : i \in 1..Len(mids)} = {Mid(hist_rows[j]) : j \in 1..Len(hist_rows)}
            /\ Len(mids) = Cardinality({Mid(hist_rows[j]) : j \in 1..Len(hist_rows)})
            /\ Len(pct) = Len(mids)
            /\ \A i \in 1..Len(pct) : pct[i].k = "fin"
            /\ total /= Zero =>
                  \A i \in 1..Len(mids) :
                      pct[i] = PercentOf(CountAtMid(hist_rows, mids[i]), total)
            /\ Less(Zero, total) => SumSeq(pct) = Rat(100, 1)
            /\ hist_rows = ScenarioSamples =>
                  /\ mids = <<Rat(25, 2)>>
                  /\ pct = <<Rat(100, 1)>>

\* C15 witness: three samples of three series with two midpoints and a
\* positive grand total; two of them share a midpoint.
C15_Witness ==
    /\ Returned("plot_histograms")
    /\ Len(hist_rows) = 3
    /\ Cardinality({<<hist_rows[j].io_size, hist_rows[j].qd>> : j \in 1..3}) = 3
    /\ Len(overall_dist.mids) = 2
    /\ Less(Zero, GrandTotal(hist_rows))
    /\ \A i \in 1..2 : Less(Zero, overall_dist.pct[i])
    /\ SumSeq(overall_dist.pct) = Rat(100, 1)

\* C15 second case: the scenario of the claim.
C15_ScenarioReached ==
    /\ Returned("plot_histograms")
    /\ hist_rows = ScenarioSamples
    /\ overall_dist.pct = <<Rat(100, 1)>>

\* The lines of all figures of the per-IO-size distribution.
AllSeries ==
    {size_dists[i][j] : <<i, j>> \in
        {p \in (1..Len(size_dists)) \X (1..MaxSamples) : p[2] <= Len(size_dists[p[1]])}}

\* The summed count of the samples of the series (io_size, qd) with the
\* midpoint m.
CountInSeries(samples, io_size, qd, m) ==
    LET Keep(r) == r.io_size = io_size /\ r.qd = qd /\ Mid(r) = m
    IN  SumSeq(CountsOf(samples, Keep))

\* The total count of the series (io_size, qd).
SeriesTotal(samples, io_size, qd) ==
    LET Keep(r) == r.io_size = io_size /\ r.qd = qd
    IN  SumSeq(CountsOf(samples, Keep))

\* C16: in the per-IO-size distribution there is one series per (IO size,
\* queue depth) of the samples; its value at each of its midpoints is 100
\* times the summed count over all runs with that (IO size, queue depth,
\* midpoint) divided by the total count of that series alone, so samples of
\* another IO size or queue depth never contribute.
C16_SeriesPercentages ==
    Returned("plot_histograms") =>
        /\ {<<s.io_size, s.qd>> : s \in AllSeries}
              = {<<hist_rows[j].io_size, hist_rows[j].qd>> : j \in 1..Len(hist_rows)}
        /\ \A s \in AllSeries :
              LET total == SeriesTotal(hist_rows, s.io_size, s.qd)
              IN  /\ {s.mids[i] : i \in 1..Len(s.mids)}
                        = {Mid(hist_rows[j]) : j \in
                              {q \in 1..Len(hist_rows) :
                                  /\ hist_rows[q].io_size = s.io_size
                                  /\ hist_rows[q].qd = s.qd}}
                  /\ Len(s.pct) = Len(s.mids)
                  /\ total /= Zero =>
                        \A i \in 1..Len(s.mids) :
                            s.pct[i] = PercentOf(CountInSeries(hist_rows, s.io_size,
                                                               s.qd, s.mids[i]), total)

\* C16 witness: two runs of one series share a midpoint and are merged, and
\* a sample of another queue depth with the same midpoint and IO size stays
\* out of that series.
C16_Witness ==
    /\ Returned("plot_histograms")
    /\ Len(hist_rows) = 3
    /\ \E a, b, c \in 1..3 :
          /\ a /= b
          /\ hist_rows[a].io_size = hist_rows[b].io_size
          /\ hist_rows[a].qd = hist_rows[b].qd
          /\ hist_rows[a].run /= hist_rows[b].run
          /\ Mid(hist_rows[a]) = Mid(hist_rows[b])
          /\ hist_rows[c].io_size = hist_rows[a].io_size
          /\ hist_rows[c].qd /= hist_rows[a].qd
          /\ Mid(hist_rows[c]) = Mid(hist_rows[a])
          /\ Less(Zero, hist_rows[c].count)
          /\ \E s \in AllSeries :
                /\ s.io_size = hist_rows[a].io_size /\ s.qd = hist_rows[a].qd
                /\ s.pct = <<Rat(100, 1)>>

(***************************************************************************)
(* Properties of the handling of missing columns.                          *)
(***************************************************************************)
\* The columns _stacked_stage_bar is asked for.
StageRequested == {size_col, qd_col} \cup {complete_cols[i] : i \in 1..Len(complete_cols)}

\* Some row of the DataFrame has the IO size that is asked for.
StageSelected ==
    /\ size_col \in frame.columns
    /\ \E i \in 1..Len(frame.rows) : frame.rows[i][size_col] = stage_size

\* The lines lineplot and lineplot_melt drew.
DrawnLines ==
    {plot.lines[i] : i \in 1..Len(plot.lines)} \cup {melt.lines[i] : i \in 1..Len(melt.lines)}

C17_SkipReached ==
    /\ Returned("plot_one") /\ exc = "none"
    /\ Len(records) >= 2
    /\ ~HasKey(records[1], "IOPS")
    /\ plot = NoPlot
    /\ melt.ret = "path"
    /\ \E i \in 1..Len(melt.lines) : Len(melt.lines[i].agg_sorted) = 2

\* C17 third case: a stage column is missing and no row has the IO size
\* asked for: the "No data" figure.
C17_PlaceholderReached ==
    /\ Returned("_stacked_stage_bar")
    /\ Len(frame.rows) >= 1
    /\ StageRequested \ frame.columns /= {}
    /\ stage.placeholder /\ stage.exc = "none"

\* C17 fourth case: every column is there and the bars are drawn.
C17_BarsReached ==
    /\ Returned("_stacked_stage_bar")
    /\ Len(stage.means) = 2
    /\ \E j \in 1..2 : Less(Zero, stage.means[j].Total)
    /\ \E j \in 1..2 : stage.means[j].Total = Zero

(***************************************************************************)
(* Properties of the fatal conditions of read_multicore_csv.               *)
(***************************************************************************)
\* C18: reading a primary results file aborts only when the file does not
\* exist or its header cannot be parsed: for every existing file with a
\* non-empty header, whatever the following lines hold, read_multicore_csv
\* returns without raising.
C18_AbortsOnlyWithoutFileOrHeader ==
    (Returned("read_multicore_csv") /\ file.exists /\ HasHeader) => exc = "none"

\* The calls that raise although the file exists and has a header are those
\* with a logical row of more cells than the header.
C18_RaisesForOverlongRow ==
    (Returned("read_multicore_csv") /\ file.exists /\ HasHeader) =>
        (exc /= "none" <=> \E i \in 1..Len(data_rows) : Len(data_rows[i]) > H)

(***************************************************************************)
(* Properties of the percentages of a row's buckets.                       *)
(***************************************************************************)
\* The six percentages in the order of the dict.
NormValues == [i \in 1..Len(BucketOrder) |-> norm_hist[BucketOrder[i]]]

\* C20: in plot_completions_stacked_by_qd the bucketed histogram of a row is
\* converted to percentages of the row's own total: when the total is
\* positive each percentage is 100 times the bucket divided by the total and
\* the six sum to 100; when the total is zero (an empty or unparsable cell),
\* or not positive at all, all six are 0; no division by zero occurs.
C20_RowPercentages ==
    (Returned("parse_hist") /\ raw_hist.exc = "none") =>
        LET total == BucketTotal(b_hist)
        IN  /\ \A l \in BucketLabels : norm_hist[l].k = "fin"
            /\ Less(Zero, total) =>
                  /\ \A l \in BucketLabels : norm_hist[l] = PercentOf(b_hist[l], total)
                  /\ SumSeq(NormValues) = Rat(100, 1)
            /\ ~Less(Zero, total) => \A l \in BucketLabels : norm_hist[l] = Zero

\* C20 witness: a row with a positive total spread over three buckets.
C20_Witness ==
    /\ Returned("parse_hist") /\ raw_hist.exc = "none"
    /\ Less(Zero, BucketTotal(b_hist))
    /\ Cardinality({l \in BucketLabels : Less(Zero, norm_hist[l])}) = 3
    /\ SumSeq(NormValues) = Rat(100, 1)

\* C20 second case: a cell without a single parsable token: the total is
\* zero and the six percentages are 0.
C20_ZeroTotalReached ==
    /\ Returned("parse_hist") /\ raw_hist.exc = "none"
    /\ hist_str.type = "str" /\ Len(hist_str.text) > 0
    /\ raw_hist.out = <<>>
    /\ BucketTotal(b_hist) = Zero
    /\ \A l \in BucketLabels : norm_hist[l] = Zero

C19_GroupedReached ==
    /\ Returned("plot_one") /\ exc = "none"
    /\ Len(records) = 3
    /\ \E i \in 1..Len(plot.lines) :
          /\ plot.lines[i].sub_rows = records
          /\ Len(plot.lines[i].agg) = 2

(***************************************************************************)
(* Properties of repeated keys in a histogram string.                      *)
(***************************************************************************)
\* The places of the well-formed tokens of ts.
WellFormedAt(ts) == {i \in 1..Len(ts) : WellFormedToken(ts[i])}

\* The values of all well-formed tokens of ts, in order.
WellFormedValues(ts) ==
    LET wf == SelectSeq(ts, WellFormedToken)
    IN  [i \in 1..Len(wf) |-> TokenValue(wf[i])]

\* Some key is carried by several well-formed tokens.
RepeatedKey(ts) ==
    \E i, j \in WellFormedAt(ts) : i < j /\ TokenKey(ts[i]) = TokenKey(ts[j])

\* C21: when a histogram string holds the same key in several well-formed
\* tokens, parse_hist keeps only the value of the last such token: every
\* entry holds the value of the last well-formed token with its key, in the
\* place of the first one; without a repeated key the counts of the entry
\* are the values of all well-formed tokens.
C21_LastTokenWins ==
    (Returned("parse_hist") /\ hist_str.type = "str") =>
        LET ts == TokensOf(hist_str.text)
        IN  /\ \A i \in 1..Len(raw_hist.out) :
                  raw_hist.out[i].val =
                      TokenValue(LastTokenWith(ts, raw_hist.out[i].key))
            /\ Len(raw_hist.out) =
                  Cardinality({TokenKey(ts[i]) : i \in WellFormedAt(ts)})
            /\ ~RepeatedKey(ts) => DictValues(raw_hist.out) = WellFormedValues(ts)

\* C21 witness: two well-formed tokens with the same key and positive
\* values of which the second is kept, so that the counts of the entry sum
\* to less than the values of the well-formed tokens.
C21_Witness ==
    /\ Returned("parse_hist") /\ hist_str.type = "str"
    /\ LET ts == TokensOf(hist_str.text)
       IN  /\ Len(ts) = 3
           /\ WellFormedAt(ts) = {1, 2, 3}
           /\ TokenKey(ts[1]) = TokenKey(ts[3])
           /\ TokenKey(ts[1]) /= TokenKey(ts[2])
           /\ Less(Zero, TokenValue(ts[1]))
           /\ Len(raw_hist.out) = 2
           /\ raw_hist.out[1].val = TokenValue(ts[3])
           /\ Less(SumSeq(DictValues(raw_hist.out)), SumSeq(WellFormedValues(ts)))

(***************************************************************************)
(* Properties of the number and the order of the logical rows.             *)
(***************************************************************************)
\* The length the lines from..to of Body add to a buffer: the marker and the
\* text of every line that is not blank.
RECURSIVE AddedLength(_, _)
AddedLength(from, to) ==
    IF from > to THEN 0
    ELSE (IF Body[from] = <<>> THEN 0 ELSE Len(EscapedNewline) + Len(Body[from]))
            + AddedLength(from + 1, to)

\* The row start whose buffer is open at the line i.
RowOf(i) == Cardinality({h \in StartsAt : h <= i})

\* Where in its buffer the text of the line i starts.
OffsetOf(i) ==
    LET start == NthStart(RowOf(i))
    IN  IF i = start THEN 0
        ELSE Len(Body[start]) + AddedLength(start + 1, i - 1) + Len(EscapedNewline)

\* C22: read_multicore_csv produces as many logical rows as there are
\* non-empty lines after the header that begin with digits and a comma, in
\* the order of those lines; every non-empty line from the first row start on
\* is in exactly one row buffer, that of the last row start before it, with
\* its text unchanged; blank lines contribute nothing.
C22_RowsAreRowStarts ==
    (Returned("read_multicore_csv") /\ HasHeader) =>
        /\ Len(row_lines) =
              Cardinality({i \in 1..Len(Body) :
                              Body[i] /= <<>> /\ BeginsWithDigitsComma(Body[i])})
        /\ Len(data_rows) = Len(row_lines)
        /\ \A k \in 1..Len(row_lines) :
              /\ Take(row_lines[k], Len(Body[NthStart(k)])) = Body[NthStart(k)]
              /\ data_rows[k][1] = CsvRow(Body[NthStart(k)])[1]
              /\ Len(row_lines[k]) =
                    Len(Body[NthStart(k)]) + AddedLength(NthStart(k) + 1, EndOfRow(k))
        /\ \A i \in 1..Len(Body) :
              (Body[i] /= <<>> /\ RowOf(i) >= 1) =>
                  SubSeq(row_lines[RowOf(i)], OffsetOf(i) + 1, OffsetOf(i) + Len(Body[i]))
                      = Body[i]

\* C22 witness: three lines after the header give two logical rows: a row
\* start, a continuation line that joined its buffer, and a second row start.
C22_Witness ==
    /\ Returned("read_multicore_csv") /\ HasHeader
    /\ Len(Body) = 3
    /\ StartsAt = {1, 3}
    /\ Body[2] /= <<>>
    /\ Body[1] /= Body[3]
    /\ Len(row_lines) = 2 /\ Len(data_rows) = 2
    /\ row_lines[1] = Body[1] \o EscapedNewline \o Body[2]
    /\ row_lines[2] = Body[3]

\* C22 second case: a blank line between a row start and its continuation.
C22_BlankReached ==
    /\ Returned("read_multicore_csv") /\ HasHeader
    /\ Len(Body) = 3
    /\ StartsAt = {1}
    /\ Body[2] = <<>> /\ Body[3] /= <<>>
    /\ Len(row_lines) = 1
    /\ Len(row_lines[1]) = Len(Body[1]) + 2 + Len(Body[3])

(***************************************************************************)
(* Properties of the two accumulations of plot_histograms.                 *)
(***************************************************************************)
\* The per-series counts at the midpoint m, over all (IO size, queue depth).
SeriesCountsAt(m) ==
    LET at == SelectSeq(agg_counts, LAMBDA e : e.key[3] = m)
    IN  [i \in 1..Len(at) |-> at[i].val]

\* The total of the series (io_size, qd).
SeriesSum(io_size, qd) ==
    LET of == SelectSeq(agg_counts, LAMBDA e : e.key[1] = io_size /\ e.key[2] = qd)
    IN  SumSeq([i \in 1..Len(of) |-> of[i].val])

\* The totals of all series, in ascending order of (IO size, queue depth).
SeriesTotals ==
    LET sizes == SortSet({k[1] : k \in DictKeys(agg_counts)})
        QdsOf(sz) == SortSet({k[2] : k \in {h \in DictKeys(agg_counts) : h[1] = sz}})
        Totals(sz) == [j \in 1..Len(QdsOf(sz)) |-> SeriesSum(sz, QdsOf(sz)[j])]
    IN  [i \in 1..Len(sizes) |-> SumSeq(Totals(sizes[i]))]

\* C23: the two accumulations of plot_histograms stay consistent after any
\* sequence of samples: they know the same midpoints, for every midpoint the
\* overall summed count is the sum over all (IO size, queue depth) of the
\* per-series summed count at that midpoint, and the grand total is the sum
\* of the per-series totals.
C23_AccumulationsConsistent ==
    call = "plot_histograms" =>
        /\ DictKeys(overall_counts) = {k[3] : k \in DictKeys(agg_counts)}
        /\ \A m \in DictKeys(overall_counts) :
              DictGet(overall_counts, m) = SumSeq(SeriesCountsAt(m))
        /\ SumSeq(DictValues(overall_counts)) = SumSeq(SeriesTotals)
        /\ SumSeq(DictValues(overall_counts)) = SumSeq(DictValues(agg_counts))

\* C23 witness: three samples of three series are merged, two of the series
\* meet at one midpoint, and a second midpoint belongs to one series.
C23_Witness ==
    /\ call = "plot_histograms"
    /\ Len(hist_rows) = 3 /\ row_i = 4
    /\ Len(agg_counts) = 3
    /\ Len(overall_counts) = 2
    /\ Cardinality({<<k[1], k[2]>> : k \in DictKeys(agg_counts)}) = 3
    /\ \E m \in DictKeys(overall_counts) :
          /\ Len(SeriesCountsAt(m)) = 2
          /\ \A i \in 1..2 : Less(Zero, SeriesCountsAt(m)[i])

(***************************************************************************)
(* Properties of the backup of apply_config.                               *)
(***************************************************************************)
\* Some call of apply_config has returned without raising.
Applied == call = "apply_config" /\ calls >= 1 /\ exc = "none"

\* Applying the updates of the latest call once more leaves the config file
\* as it is.
SameUpdatesAgainChangeNothing ==
    apply_config(config, backup, updates).config = config

\* C24: after any sequence of apply_config calls on the same config path,
\* starting without a backup file, the ".bak" file holds the config content
\* as it was before the first call, character for character, and applying
\* the same updates a second time leaves the config file unchanged.
C24_BackupHoldsOriginal ==
    Applied =>
        /\ backup.exists
        /\ backup.text = original.text
        /\ SameUpdatesAgainChangeNothing

\* What the backup does hold: the text of the config file as the first call
\* read it, with every "\r\n" and "\r" turned into "\n"; it is the original
\* text when that has no "\r".
C24_BackupHoldsTextAsRead ==
    Applied =>
        /\ backup.exists
        /\ backup.text = UniversalNewlines(original.text)
        /\ (\A i \in 1..Len(original.text) : original.text[i] /= "\r") =>
              backup.text = original.text
        /\ SameUpdatesAgainChangeNothing

\* The backup is written only when there is none and never overwritten.
C24_BackupNeverOverwritten ==
    [][backup.exists => backup' = backup]_vars

\* Two calls with different updates on a config file without "\r": the
\* second changed the file again and the backup still holds the original.
C24_SecondCallReached ==
    /\ Applied /\ calls = 2
    /\ before.text /= original.text
    /\ config.text /= before.text
    /\ backup.text = original.text

\* A config file with "\r\n" line endings was patched and backed up.
C24_CarriageReturnReached ==
    /\ Applied
    /\ \E i \in 1..Len(original.text) : original.text[i] = "\r"
    /\ backup.text /= original.text
    /\ config.text /= UniversalNewlines(original.text)

====
